---- MODULE Spec2Model ----
(***************************************************************************)
(* Session lifecycle of lsd-mcp: the dose -> intensity transfer function,  *)
(* the session store (in-memory, in-memory with a per-user index, and      *)
(* Postgres), the session resolver and the tool calls built on them.       *)
(*                                                                         *)
(* Tool calls are asynchronous: a call runs from one `await` to the next   *)
(* without interruption and may interleave with other calls at every       *)
(* `await`.  Each action below is the code between two awaits; a Postgres  *)
(* statement takes effect in the step that issues it.                      *)
(*                                                                         *)
(* Time is counted in hours.  Intensities are held in hundredths (the code *)
(* rounds to two decimals), so 0.50 is 50.  The drizzle operators eq, and, *)
(* lt used by the Postgres store have their drizzle-orm meaning.           *)
(***************************************************************************)
EXTENDS Integers, FiniteSets, Sequences, TLC

\* ------------------------------------------------------------------------
\* Bounds of the model
\* ------------------------------------------------------------------------
MaxSessions == 3
MaxConcurrentSessions == 2
MaxCalls == 4
MaxConcurrentCalls == 2
MaxTime == 10
MaxDoseSessions == 2
MaxDoseCalls == 2
MaxStoreSessions == 2
MaxAdjustCalls == 3
MaxSampleDose == 600
MaxNegativeDose == 250

Procs == {1, 2}
Owners == {"alice", "bob"}
DoseInputs == {400}
AnchorInputs == {{"user_intent_priority"}}
Modes == {"synesthetic_mapping", "pattern_amplification"}

\* ------------------------------------------------------------------------
\* Program constants (types.ts)
\* ------------------------------------------------------------------------
DEFAULT_DOSE_UM == 50
SESSION_DURATION_HOURS == 8
HIGH_DOSE_WARNING_THRESHOLD == 400
SIGMOID_MIDPOINT == 150
\* SIGMOID_STEEPNESS = 0.015 = SteepnessNum / SteepnessDen
SteepnessNum == 3
SteepnessDen == 200

NoUser == "null"
AutoUser == "auto-initialized"
Users == Owners \cup {AutoUser}
NoSession == 0
Ids == 1..MaxSessions
\* the clock advances by a little more than half a session lifetime
TickHours == SESSION_DURATION_HOURS \div 2 + 1

\* ------------------------------------------------------------------------
\* Sigmoid intensity function, in fixed point
\* ------------------------------------------------------------------------
FixedOne == 2^28
Limb == 2^14
DivOne == 2^22

\* a * b / FixedOne for 0 <= a, b <= FixedOne, without leaving 32 bits
MulFix(a, b) ==
  LET a1 == a \div Limb
      a0 == a % Limb
      b1 == b \div Limb
      b0 == b % Limb
  IN  a1 * b1 + ((a1 * b0 + a0 * b1) + ((a0 * b0) \div Limb)) \div Limb

\* the j-th term of the series of e^(SIGMOID_STEEPNESS), times FixedOne
RECURSIVE SeriesTerm(_)
SeriesTerm(j) ==
  IF j = 0 THEN FixedOne
  ELSE (SeriesTerm(j - 1) * SteepnessNum) \div (SteepnessDen * j)

\* e^(-SIGMOID_STEEPNESS), times FixedOne
ExpNegSteepness ==
  SeriesTerm(0) - SeriesTerm(1) + SeriesTerm(2) - SeriesTerm(3) + SeriesTerm(4)

\* e^(-SIGMOID_STEEPNESS * m), times FixedOne, for m >= 0
RECURSIVE ExpNeg(_)
ExpNeg(m) ==
  IF m = 0 THEN FixedOne
  ELSE IF m % 2 = 0
       THEN LET h == ExpNeg(m \div 2) IN MulFix(h, h)
       ELSE MulFix(ExpNegSteepness, ExpNeg(m - 1))

Abs(x) == IF x < 0 THEN -x ELSE x

\* Math.round(x) for x = num / den >= 0: floor(x + 1/2)
MathRound(num, den) == (2 * num + den) \div (2 * den)

calculateIntensityMidpoint100(dose_um) ==
  LET e == ExpNeg(Abs(dose_um - 100)) \div (FixedOne \div DivOne)
      num == IF dose_um >= 100 THEN 100 * DivOne ELSE 100 * e
  IN  MathRound(num, DivOne + e)

calculateIntensityOneDecimal(dose_um) ==
  LET e == ExpNeg(Abs(dose_um - SIGMOID_MIDPOINT)) \div (FixedOne \div DivOne)
      num == IF dose_um >= SIGMOID_MIDPOINT THEN 10 * DivOne ELSE 10 * e
  IN  10 * MathRound(num, DivOne + e)

\* 1 / (1 + e^(-k (dose - m))) times 100, rounded: the intensity in hundredths
calculateIntensity(dose_um) ==
  LET e == ExpNeg(Abs(dose_um - SIGMOID_MIDPOINT)) \div (FixedOne \div DivOne)
      num == IF dose_um >= SIGMOID_MIDPOINT THEN 100 * DivOne ELSE 100 * e
  IN  MathRound(num, DivOne + e)

\* the doses the transfer function is sampled at
DoseSamples == (0 - MaxNegativeDose)..MaxSampleDose

\* calculateIntensity over the sampled doses
IntensityOf == [d \in DoseSamples |-> calculateIntensity(d)]

getDoseRangeExclusive(dose_um) ==
  IF dose_um < 10 THEN "threshold"
  ELSE IF dose_um < 50 THEN "subtle"
  ELSE IF dose_um < 100 THEN "moderate"
  ELSE IF dose_um < 150 THEN "significant"
  ELSE IF dose_um < 250 THEN "strong"
  ELSE IF dose_um < 400 THEN "intense"
  ELSE "overwhelming"

getDoseRange(dose_um) ==
  IF dose_um <= 10 THEN "threshold"
  ELSE IF dose_um <= 50 THEN "subtle"
  ELSE IF dose_um <= 100 THEN "moderate"
  ELSE IF dose_um <= 150 THEN "significant"
  ELSE IF dose_um <= 250 THEN "strong"
  ELSE IF dose_um <= 400 THEN "intense"
  ELSE "overwhelming"

calculateDoseEffectsSkipping(intensity) ==
  [ perception |->
      IF intensity < 15 THEN "imperceptible"
      ELSE IF intensity < 25 THEN "subtle"
      ELSE IF intensity < 45 THEN "moderate"
      ELSE IF intensity < 45 THEN "significant"
      ELSE IF intensity < 85 THEN "intense"
      ELSE "overwhelming",
    category_fluidity |->
      IF intensity < 15 THEN "rigid"
      ELSE IF intensity < 30 THEN "slight"
      ELSE IF intensity < 50 THEN "moderate"
      ELSE IF intensity < 70 THEN "significant"
      ELSE IF intensity < 90 THEN "fluid"
      ELSE "dissolved",
    pattern_sensitivity |->
      IF intensity < 30 THEN "normal"
      ELSE IF intensity < 60 THEN "heightened"
      ELSE IF intensity < 85 THEN "acute"
      ELSE "saturated",
    associative_looseness |->
      IF intensity < 25 THEN "tight"
      ELSE IF intensity < 55 THEN "moderate"
      ELSE IF intensity < 80 THEN "loose"
      ELSE "unbounded" ]

\* calculateDoseEffects: the intensity is in hundredths
calculateDoseEffects(intensity) ==
  [ perception |->
      IF intensity < 15 THEN "imperceptible"
      ELSE IF intensity < 25 THEN "subtle"
      ELSE IF intensity < 45 THEN "moderate"
      ELSE IF intensity < 60 THEN "significant"
      ELSE IF intensity < 85 THEN "intense"
      ELSE "overwhelming",
    category_fluidity |->
      IF intensity < 15 THEN "rigid"
      ELSE IF intensity < 30 THEN "slight"
      ELSE IF intensity < 50 THEN "moderate"
      ELSE IF intensity < 70 THEN "significant"
      ELSE IF intensity < 90 THEN "fluid"
      ELSE "dissolved",
    pattern_sensitivity |->
      IF intensity < 30 THEN "normal"
      ELSE IF intensity < 60 THEN "heightened"
      ELSE IF intensity < 85 THEN "acute"
      ELSE "saturated",
    associative_looseness |->
      IF intensity < 25 THEN "tight"
      ELSE IF intensity < 55 THEN "moderate"
      ELSE IF intensity < 80 THEN "loose"
      ELSE "unbounded" ]

getHighDoseWarningAbove(dose_um) == dose_um > HIGH_DOSE_WARNING_THRESHOLD

getHighDoseWarning(dose_um) == dose_um >= HIGH_DOSE_WARNING_THRESHOLD

\* ------------------------------------------------------------------------
\* Mode derivations (modes/*.ts): what a mode function computes from the
\* intensity and the caller's parameters.  Intensities are in hundredths,
\* knob values and requested values in thousandths (0.3 is 300); an absent
\* parameter is NoRequest.
\* ------------------------------------------------------------------------
NoRequest == 0 - 1
Intensities == 0..100
Max(a, b) == IF a >= b THEN a ELSE b
Min(a, b) == IF a <= b THEN a ELSE b
\* Math.round(x * 100) / 100 of a value in thousandths
RoundHundredths(x) == 10 * MathRound(x, 10)

calculatePatternSensitivityUncapped(intensity) ==
  10 * MathRound(500 * intensity + intensity * intensity, 500)

\* patterns.ts: intensity + 0.2 intensity^2, rounded to hundredths, at most 1
calculatePatternSensitivity(intensity) ==
  Min(1000, 10 * MathRound(500 * intensity + intensity * intensity, 500))

\* the intensities at which 0.95 - 0.7 * intensity, exactly halfway between
\* two hundredths, comes out just below the half in double arithmetic
ReturnRoundsDown == {5, 25, 55}

\* associative.ts: max(0.1, 0.95 - 0.7 intensity), rounded to hundredths
calculateReturnProbability(intensity) ==
  LET probability == Max(100, 950 - intensity * 7) IN
  IF intensity \in ReturnRoundsDown
  THEN 10 * (probability \div 10)
  ELSE RoundHundredths(probability)

\* boundaries.ts
MinimumHybridsBase(intensity) ==
  IF intensity < 15 THEN 1
  ELSE IF intensity < 30 THEN 2
  ELSE IF intensity < 50 THEN 3
  ELSE IF intensity < 70 THEN 5
  ELSE IF intensity < 90 THEN 7
  ELSE 10

calculateMinimumHybrids(intensity, requestedCount) ==
  IF requestedCount # NoRequest
  THEN Max(MinimumHybridsBase(intensity), requestedCount)
  ELSE MinimumHybridsBase(intensity)

calculateEffectiveCoherenceInverted(intensity, requested) ==
  LET baseCoherence == IF requested # NoRequest THEN requested ELSE 700
      intensityPenalty == intensity * 4
      effective == Max(100, intensityPenalty + 1000 - baseCoherence)
  IN  RoundHundredths(effective)

calculateEffectiveCoherence(intensity, requested) ==
  LET baseCoherence == IF requested # NoRequest THEN requested ELSE 700
      intensityPenalty == intensity * 4
      effective == Max(100, baseCoherence - intensityPenalty)
  IN  RoundHundredths(effective)

\* patterns.ts
FocusAllocationBase(intensity) ==
  IF intensity < 20 THEN 150
  ELSE IF intensity < 40 THEN 300
  ELSE IF intensity < 60 THEN 500
  ELSE IF intensity < 80 THEN 750
  ELSE 900

calculateFocusAllocationUnfloored(intensity, requested) ==
  IF requested # NoRequest
  THEN Min(1000, requested)
  ELSE FocusAllocationBase(intensity)

calculateFocusAllocation(intensity, requested) ==
  IF requested # NoRequest
  THEN Max(FocusAllocationBase(intensity), Min(1000, requested))
  ELSE FocusAllocationBase(intensity)

\* novelty bias (unnamed/part_003)
ExplorationWeightBase(intensity) == 300 + intensity * 6

calculateExplorationWeight(intensity, requested) ==
  IF requested # NoRequest
  THEN Max(ExplorationWeightBase(intensity), Min(1000, requested))
  ELSE RoundHundredths(ExplorationWeightBase(intensity))

FamiliarityPenaltyBase(intensity) == intensity * 8

calculateFamiliarityPenalty(intensity, requested) ==
  IF requested # NoRequest
  THEN Max(FamiliarityPenaltyBase(intensity), Min(1000, requested))
  ELSE RoundHundredths(FamiliarityPenaltyBase(intensity))

MinimumSurpriseBase(intensity) == 200 + intensity * 7

calculateMinimumSurprise(intensity, requested) ==
  IF requested # NoRequest
  THEN Max(MinimumSurpriseBase(intensity), Min(1000, requested))
  ELSE RoundHundredths(MinimumSurpriseBase(intensity))

\* prismatic.ts
SuspensionDepthBase(intensity) == 200 + intensity * 7

calculateSuspensionDepth(intensity, requested) ==
  IF requested # NoRequest
  THEN Max(SuspensionDepthBase(intensity), Min(1000, requested))
  ELSE RoundHundredths(SuspensionDepthBase(intensity))

\* semantic-drift.ts
AnchorStrengthCeiling(intensity) == Max(100, 1000 - intensity * 10)

calculateEffectiveAnchorStrengthUncapped(intensity, requested) ==
  IF requested # NoRequest
  THEN Max(100, requested)
  ELSE RoundHundredths(AnchorStrengthCeiling(intensity))

calculateEffectiveAnchorStrength(intensity, requested) ==
  IF requested # NoRequest
  THEN Min(AnchorStrengthCeiling(intensity), Max(100, requested))
  ELSE RoundHundredths(AnchorStrengthCeiling(intensity))

\* synesthetic.ts
effective_mapping_strictness(intensity, mapping_strictness) ==
  LET requested == IF mapping_strictness # NoRequest THEN mapping_strictness
                   ELSE 500
  IN  RoundHundredths(Min(1000, requested + intensity * 3))

\* prismatic.ts: a requested count replaces the base
calculatePerspectiveCount(intensity, requested) ==
  LET baseCount == IF intensity < 20 THEN 2
                   ELSE IF intensity < 40 THEN 3
                   ELSE IF intensity < 60 THEN 4
                   ELSE IF intensity < 80 THEN 5
                   ELSE 6
  IN  IF requested # NoRequest THEN Max(2, Min(10, requested)) ELSE baseCount

\* patterns.ts
getElaborationDepthSwapped(intensity) ==
  IF intensity < 25 THEN "minimal"
  ELSE IF intensity < 50 THEN "extensive"
  ELSE IF intensity < 80 THEN "moderate"
  ELSE "total"

getElaborationDepth(intensity) ==
  IF intensity < 25 THEN "minimal"
  ELSE IF intensity < 50 THEN "moderate"
  ELSE IF intensity < 80 THEN "extensive"
  ELSE "total"

getApopheniaTolerance(intensity) ==
  IF intensity < 30 THEN "low"
  ELSE IF intensity < 60 THEN "moderate"
  ELSE IF intensity < 85 THEN "high"
  ELSE "extreme"

\* novelty bias (unnamed/part_003)
getNoveltyThreshold(intensity) ==
  IF intensity < 20 THEN "unusual"
  ELSE IF intensity < 40 THEN "untested"
  ELSE IF intensity < 60 THEN "speculative"
  ELSE IF intensity < 80 THEN "speculative"
  ELSE "radical"

\* What a function declared `: T | undefined` returns: undefined, or a list,
\* an object (its keys) or a string (as a one-element set).
NotDefined == [defined |-> FALSE, items |-> {}]
Defined(items) == [defined |-> TRUE, items |-> items]
\* `if (x) response.field = x`: lists and objects are truthy, a string is
\* truthy unless empty
Truthy(x, isString) == x.defined /\ (isString => x.items # {""})

\* synesthetic.ts
getForbiddenAbstractionsEmptyBelow(intensity) ==
  IF intensity < 45 THEN Defined({})
  ELSE IF intensity < 70
       THEN Defined({"therefore", "implies", "consequently", "hence"})
  ELSE Defined({"because", "therefore", "implies", "consequently", "hence",
                "abstract", "concept", "idea", "theory", "principle"})

getForbiddenAbstractions(intensity) ==
  IF intensity < 45 THEN NotDefined
  ELSE IF intensity < 70
       THEN Defined({"therefore", "implies", "consequently", "hence"})
  ELSE Defined({"because", "therefore", "implies", "consequently", "hence",
                "abstract", "concept", "idea", "theory", "principle"})

getMandatoryMappings(intensity) ==
  IF intensity < 65 THEN NotDefined
  ELSE Defined({"categories", "relationships", "processes", "conditionals",
                "loops", "errors", "success"})

\* boundaries.ts
getConstraintRelaxation(intensity) ==
  IF intensity < 45 THEN NotDefined
  ELSE IF intensity < 70
       THEN Defined({"Items need not belong to single ontological domain",
                     "Properties can come from incompatible categories if result is coherent"})
  ELSE Defined({"Items need not belong to single ontological domain",
                "Properties can come from incompatible categories",
                "Contradiction is permitted if it generates insight",
                "Physical laws can be selectively suspended in thought experiments"})

getSuspendedRules(intensity) ==
  IF intensity < 65 THEN NotDefined
  ELSE IF intensity < 85
       THEN Defined({"Animate/inanimate distinction",
                     "Abstract/concrete distinction"})
  ELSE Defined({"Animate/inanimate distinction",
                "Abstract/concrete distinction",
                "Process/object distinction",
                "Living/non-living distinction",
                "Observer/observed distinction",
                "Cause/effect temporal ordering"})

getMaintainedRules(intensity) ==
  IF intensity < 50 THEN NotDefined
  ELSE IF intensity < 90
       THEN Defined({"Must be internally experienceable as coherent (even if externally paradoxical)",
                     "Must generate novel insight or perspective"})
  ELSE Defined({"Must be experienceable (even if not coherent)",
                "Must be expressible in language (even if language strains)"})

\* getCognitiveState of each mode file: undefined below the first threshold,
\* one text up to the second, another text from there on
AllModes ==
  {"synesthetic_mapping", "associative_depth", "boundary_dissolution",
   "pattern_amplification", "semantic_drift", "prismatic_perspective",
   "novelty_bias", "constraint_revealer"}

CognitiveStateFrom(m) ==
  CASE m = "synesthetic_mapping" -> <<85, 95>>
    [] m = "associative_depth" -> <<80, 95>>
    [] m = "boundary_dissolution" -> <<80, 95>>
    [] m = "pattern_amplification" -> <<75, 90>>
    [] m = "semantic_drift" -> <<75, 90>>
    [] m = "prismatic_perspective" -> <<70, 85>>
    [] m = "novelty_bias" -> <<70, 85>>
    [] m = "constraint_revealer" -> <<70, 85>>

getCognitiveState(m, intensity) ==
  IF intensity < CognitiveStateFrom(m)[1] THEN NotDefined
  ELSE IF intensity < CognitiveStateFrom(m)[2] THEN Defined({"first text"})
  ELSE Defined({"second text"})

\* ------------------------------------------------------------------------
\* State
\* ------------------------------------------------------------------------
VARIABLES
  deployment,     \* "stdio" (index.ts) or "http" (the POST route): fixed at start
  backend,        \* "Local", "LocalIndexed" or "Remote": fixed at start
  now,            \* the wall clock, in hours
  nextId,         \* the next fresh session id (randomUUID)
  store,          \* the session store, see EmptyStore
  currentUserId,  \* session.ts: the ambient caller identity
  pc,             \* per tool call: the await it is suspended at
  auth,           \* per tool call: the authenticated user of the request
  session,        \* per tool call: the session ensureSession / adjustDose resolved
  modeSession,    \* per tool call: the session setCurrentMode resolved
  expiring,       \* per tool call: the row a Postgres lookup is about to mark expired
  mode,           \* per tool call: the mode being activated
  created,        \* per tool call: the number of sessions it created
  response,       \* per tool call: the result of its last completed call
  calls,          \* the number of tool calls that have arrived
  lastEnsured,    \* the caller and the id of the last ensureSession that returned
  boundUser,      \* per tool call: the userId its unawaited lookups were called with
  lastDose,       \* the caller, the session and the dose of the last dose set
  lastOp,         \* the last call of the storage interface and what it returned
  evaluated       \* the last evaluation of a derivation function: inputs and result

vars == <<deployment, backend, now, nextId, store, currentUserId, pc, auth,
          session, modeSession, expiring, mode, created, response, calls,
          lastEnsured, boundUser, lastDose, lastOp, evaluated>>

\* A Session object (types.ts); the id is the index it is kept under.
NewSession(dose_um, user_id, safety_anchors, t) ==
  [ dose_um |-> dose_um,
    intensity_coefficient |-> calculateIntensity(dose_um),
    created_at |-> t,
    expires_at |-> t + SESSION_DURATION_HOURS,
    user_id |-> user_id,
    safety_anchors |-> safety_anchors,
    current_mode |-> "null",
    status |-> "initialized" ]

BlankSession ==
  [ dose_um |-> 0, intensity_coefficient |-> 0, created_at |-> 0, expires_at |-> 0,
    user_id |-> NoUser, safety_anchors |-> {}, current_mode |-> "null",
    status |-> "initialized" ]

\* objects: every session object allocated so far, by id (an object removed
\*   from the map lives on for the calls that still hold it);
\* sessions: the ids the Map / the Postgres table holds;
\* activeSessionId, userSessions: the in-memory stores' pointer and index.
EmptyStore ==
  [ objects |-> [i \in Ids |-> BlankSession],
    sessions |-> {},
    activeSessionId |-> NoSession,
    userSessions |-> [u \in Users |-> NoSession] ]

\* Object.assign(session, updates)
Assign(s, updates) ==
  [k \in DOMAIN s |-> IF k \in DOMAIN updates THEN updates[k] ELSE s[k]]

\* What a lookup gives back: the store after its side effects, the id it
\* returns (NoSession for null), and for Postgres the row still to be marked
\* expired before the lookup returns (done = FALSE).
Outcome(st, id) == [st |-> st, id |-> id, expiring |-> NoSession, done |-> TRUE]

\* ------------------------------------------------------------------------
\* LocalSessionStorage (db/session-storage.ts)
\* ------------------------------------------------------------------------
LocalSave(st, id, s) ==
  [st EXCEPT !.objects[id] = s,
             !.sessions = @ \cup {id},
             !.activeSessionId = id]

LocalGetActiveNoExpiry(st, t) ==
  LET a == st.activeSessionId IN
  IF a = NoSession THEN Outcome(st, NoSession)
  ELSE IF a \notin st.sessions
       THEN Outcome([st EXCEPT !.activeSessionId = NoSession], NoSession)
  ELSE Outcome(st, a)

LocalGetActiveEvicting(st, t) ==
  LET a == st.activeSessionId IN
  IF a = NoSession THEN Outcome(st, NoSession)
  ELSE IF a \notin st.sessions
       THEN Outcome([st EXCEPT !.activeSessionId = NoSession], NoSession)
  ELSE IF t > st.objects[a].expires_at
       THEN Outcome([st EXCEPT !.objects[a].status = "expired",
                               !.sessions = @ \ {a},
                               !.activeSessionId = NoSession], NoSession)
  ELSE Outcome(st, a)

LocalGetActiveEager(st, t) ==
  LET a == st.activeSessionId IN
  IF a = NoSession THEN Outcome(st, NoSession)
  ELSE IF a \notin st.sessions
       THEN Outcome([st EXCEPT !.activeSessionId = NoSession], NoSession)
  ELSE IF t > st.objects[a].created_at
       THEN Outcome([st EXCEPT !.objects[a].status = "expired",
                               !.activeSessionId = NoSession], NoSession)
  ELSE Outcome(st, a)

LocalGetActive(st, t) ==
  LET a == st.activeSessionId IN
  IF a = NoSession THEN Outcome(st, NoSession)
  ELSE IF a \notin st.sessions
       THEN Outcome([st EXCEPT !.activeSessionId = NoSession], NoSession)
  ELSE IF t > st.objects[a].expires_at
       THEN Outcome([st EXCEPT !.objects[a].status = "expired",
                               !.activeSessionId = NoSession], NoSession)
  ELSE Outcome(st, a)

LocalUpdateUpserting(st, id, updates) ==
  [st EXCEPT !.objects[id] = Assign(@, updates), !.sessions = @ \cup {id}]

LocalUpdate(st, id, updates) ==
  IF id \in st.sessions
  THEN [st EXCEPT !.objects[id] = Assign(@, updates)]
  ELSE st

LocalClearExpired(st, t) ==
  [st EXCEPT !.sessions = {i \in @ : ~(st.objects[i].expires_at < t)}]

\* ------------------------------------------------------------------------
\* LocalSessionStorage with the per-user index (unnamed/part_002)
\* ------------------------------------------------------------------------
IndexedSave(st, id, s) ==
  [st EXCEPT !.objects[id] = s,
             !.sessions = @ \cup {id},
             !.activeSessionId = id,
             !.userSessions = IF s.user_id \in Users
                              THEN [@ EXCEPT ![s.user_id] = id]
                              ELSE @]

IndexedGetActiveForUser(st, userId, t) ==
  LET a == st.userSessions[userId] IN
  IF a = NoSession THEN Outcome(st, NoSession)
  ELSE IF a \notin st.sessions
       THEN Outcome([st EXCEPT !.userSessions[userId] = NoSession], NoSession)
  ELSE IF t > st.objects[a].expires_at
       THEN Outcome([st EXCEPT !.objects[a].status = "expired",
                               !.userSessions[userId] = NoSession], NoSession)
  ELSE Outcome(st, a)

\* the loop deletes the index entry of every expired session's user, whatever
\* session that entry points to
IndexedClearExpired(st, t) ==
  LET gone == {i \in st.sessions : st.objects[i].expires_at < t} IN
  [st EXCEPT !.sessions = @ \ gone,
             !.userSessions = [u \in Users |->
                 IF \E i \in gone : st.objects[i].user_id = u
                 THEN NoSession ELSE @[u]]]

\* ------------------------------------------------------------------------
\* RemoteSessionStorage and getActiveSessionForUser (db/session-storage.ts)
\* ------------------------------------------------------------------------
\* db.insert(sessions).values(...): ids are fresh, so the insert succeeds
RemoteSave(st, id, s) ==
  [st EXCEPT !.objects[id] = s, !.sessions = @ \cup {id}]

RemoteUpdatableFields ==
  {"dose_um", "intensity_coefficient", "current_mode", "status", "safety_anchors"}

\* UPDATE sessions SET dbUpdates WHERE id = sessionId
RemoteUpdate(st, id, updates) ==
  IF id \in st.sessions
  THEN [st EXCEPT !.objects[id] =
          [k \in DOMAIN @ |->
             IF k \in DOMAIN updates /\ k \in RemoteUpdatableFields
             THEN updates[k] ELSE @[k]]]
  ELSE st

\* DELETE FROM sessions WHERE expires_at < now
RemoteClearExpired(st, t) ==
  [st EXCEPT !.sessions = {i \in @ : ~(st.objects[i].expires_at < t)}]

\* the rows the WHERE clause of getActiveSessionForUser selects
RemoteMatching(st, userId) ==
  {i \in st.sessions : /\ st.objects[i].user_id = userId
                       /\ st.objects[i].status = "initialized"}

\* ORDER BY created_at LIMIT 1: a row with the least created_at (Postgres
\* picks any of them when several were created at the same instant)
RemoteFirstRows(st, userId) ==
  LET m == RemoteMatching(st, userId) IN
  {i \in m : \A j \in m : st.objects[i].created_at <= st.objects[j].created_at}

\* the select of getActiveSessionForUser and the expiry test on its row
RemoteSelectActive(st, userId, t) ==
  IF RemoteFirstRows(st, userId) = {} THEN {Outcome(st, NoSession)}
  ELSE { IF st.objects[i].expires_at < t
         THEN [st |-> st, id |-> NoSession, expiring |-> i, done |-> FALSE]
         ELSE Outcome(st, i) : i \in RemoteFirstRows(st, userId) }

\* UPDATE sessions SET status = 'expired' WHERE id = session.id; return null
RemoteMarkExpired(st, id) ==
  Outcome(IF id \in st.sessions
          THEN [st EXCEPT !.objects[id].status = "expired"]
          ELSE st, NoSession)

\* ------------------------------------------------------------------------
\* Store selection (getSessionStorage) and the session service (session.ts)
\* ------------------------------------------------------------------------
isRemoteMode == backend = "Remote"

StorageSave(st, id, s) ==
  CASE backend = "Remote" -> RemoteSave(st, id, s)
    [] backend = "LocalIndexed" -> IndexedSave(st, id, s)
    [] OTHER -> LocalSave(st, id, s)

StorageUpdate(st, id, updates) ==
  IF backend = "Remote" THEN RemoteUpdate(st, id, updates)
  ELSE LocalUpdate(st, id, updates)

StorageGetActive(st, t) ==
  IF backend = "Remote" THEN {Outcome(st, NoSession)}
  ELSE {LocalGetActive(st, t)}

StorageClearExpired(st, t) ==
  CASE backend = "Remote" -> RemoteClearExpired(st, t)
    [] backend = "LocalIndexed" -> IndexedClearExpired(st, t)
    [] OTHER -> LocalClearExpired(st, t)

\* the number clearExpired returns: the in-memory stores count what they
\* delete, the Postgres store returns 0
StorageClearExpiredCount(st, t) ==
  IF backend = "Remote" THEN 0
  ELSE Cardinality({i \in st.sessions : st.objects[i].expires_at < t})

\* delete(sessionId)
LocalDelete(st, id) ==
  [st EXCEPT !.sessions = @ \ {id},
             !.activeSessionId = IF @ = id THEN NoSession ELSE @]

\* the index entry of the deleted session's user goes, whatever it points to
IndexedDelete(st, id) ==
  [st EXCEPT !.sessions = @ \ {id},
             !.activeSessionId = IF @ = id THEN NoSession ELSE @,
             !.userSessions = IF id \in st.sessions /\ st.objects[id].user_id \in Users
                              THEN [@ EXCEPT ![st.objects[id].user_id] = NoSession]
                              ELSE @]

\* DELETE FROM sessions WHERE id = sessionId
RemoteDelete(st, id) == [st EXCEPT !.sessions = @ \ {id}]

StorageDelete(st, id) ==
  CASE backend = "Remote" -> RemoteDelete(st, id)
    [] backend = "LocalIndexed" -> IndexedDelete(st, id)
    [] OTHER -> LocalDelete(st, id)

\* getActiveSessionForUser: db/session-storage.ts, and unnamed/part_002 for
\* the indexed store
getActiveSessionForUser(st, userId, t) ==
  CASE backend = "Remote" -> RemoteSelectActive(st, userId, t)
    [] backend = "LocalIndexed" -> {IndexedGetActiveForUser(st, userId, t)}
    [] OTHER -> {LocalGetActive(st, t)}

\* getActiveSession as call p runs it, userId being the currentUserId it read
\* when it was called: the outcomes of its next step
getActiveSessionAs(p, userId) ==
  IF expiring[p] # NoSession
  THEN {RemoteMarkExpired(store, expiring[p])}
  ELSE IF userId # NoUser
       THEN getActiveSessionForUser(store, userId, now)
       ELSE StorageGetActive(store, now)

\* an awaited getActiveSession(): called and answered in the same step
getActiveSession(p) == getActiveSessionAs(p, currentUserId)

\* What a call holds of a session it resolved: the Map's own object in the
\* in-memory stores, a copy of the row (dbToAppSession) in the Postgres store.
NoHeld == [id |-> NoSession, dose_um |-> 0, intensity_coefficient |-> 0]

Hold(st, id) ==
  IF id = NoSession THEN NoHeld
  ELSE IF isRemoteMode
       THEN [id |-> id, dose_um |-> st.objects[id].dose_um,
             intensity_coefficient |-> st.objects[id].intensity_coefficient]
       ELSE [id |-> id, dose_um |-> 0, intensity_coefficient |-> 0]

HeldDose(st, h) ==
  IF isRemoteMode THEN h.dose_um ELSE st.objects[h.id].dose_um

HeldIntensity(st, h) ==
  IF isRemoteMode THEN h.intensity_coefficient
  ELSE st.objects[h.id].intensity_coefficient

\* createSession's record and save; the caller supplies the fresh id
createSession(st, id, dose_um, user_id, safety_anchors, t) ==
  StorageSave(st, id, NewSession(dose_um, user_id, safety_anchors, t))

\* currentUserId || "auto-initialized"
AmbientOwner == IF currentUserId # NoUser THEN currentUserId ELSE AutoUser

NoResponse ==
  [ kind |-> "none", session_id |-> NoSession, dose_um |-> 0,
    previous_dose_um |-> 0, previous_intensity |-> 0, intensity |-> 0,
    warning |-> FALSE, mode |-> "null" ]

\* where a call goes when its handler returns
FinishPc == "end"

NoEnsured == [caller |-> NoUser, id |-> NoSession]

NoDose == [caller |-> NoUser, id |-> NoSession, dose |-> 0]

\* a call of the storage interface: the method, the id it was given, whether
\* the store held that id, and the value it returned
NoOp == [op |-> "none", id |-> NoSession, known |-> FALSE, result |-> 0]

\* what JSON.stringify leaves out: a field whose value is undefined
Undefined == 0 - 1
\* no derivation function evaluated yet
NoEvaluation ==
  [fn |-> "none", dose |-> 0, intensity |-> 0, requested |-> Undefined,
   result |-> 0]

Set(f, p, v) == [f EXCEPT ![p] = v]

Op(name, id, result) ==
  [op |-> name, id |-> id, known |-> id \in store.sessions, result |-> result]

\* ------------------------------------------------------------------------
\* Initial state
\* ------------------------------------------------------------------------
InitProgram ==
  /\ deployment \in {"stdio", "http"}
  /\ backend \in {"Local", "LocalIndexed", "Remote"}
  /\ now = 0
  /\ nextId = 1
  /\ store = EmptyStore
  /\ currentUserId = NoUser
  /\ pc = [p \in Procs |-> "idle"]
  /\ auth = [p \in Procs |-> NoUser]
  /\ session = [p \in Procs |-> NoHeld]
  /\ modeSession = [p \in Procs |-> NoSession]
  /\ expiring = [p \in Procs |-> NoSession]
  /\ mode = [p \in Procs |-> "null"]
  /\ created = [p \in Procs |-> 0]
  /\ response = [p \in Procs |-> NoResponse]
  /\ calls = 0
  /\ lastEnsured = NoEnsured
  /\ boundUser = [p \in Procs |-> NoUser]
  /\ lastDose = NoDose
  /\ lastOp = NoOp

Init == InitProgram /\ evaluated = NoEvaluation

\* ------------------------------------------------------------------------
\* A tool call arrives
\* ------------------------------------------------------------------------
\* POST: setCurrentUserId(auth.userId), then the handler of the tool; the
\* stdio server has no caller identity and goes to the handler at once.
Arrive(p, first, budget) ==
  /\ pc[p] = "idle"
  /\ calls < budget
  /\ calls' = calls + 1
  /\ \E u \in (IF deployment = "http" THEN Owners ELSE {NoUser}) :
       /\ auth' = Set(auth, p, u)
       /\ currentUserId' = IF deployment = "http" THEN u ELSE currentUserId
  /\ pc' = Set(pc, p, first)
  /\ UNCHANGED <<evaluated, deployment, backend, now, nextId, store, session, modeSession,
                 expiring, mode, created, response, lastEnsured,
                 boundUser, lastDose, lastOp>>

StartCall(p, budget) ==
  \/ Arrive(p, "i_create", budget)
  \/ Arrive(p, "a_get", budget)
  \/ Arrive(p, "e_get", budget)
  \/ Arrive(p, "d_call", budget)

\* the result goes back to the client and the call's locals are gone; the
\* `finally` of POST runs setCurrentUserId(null)
EndRequest(p) ==
  /\ pc[p] = "end"
  /\ currentUserId' = IF deployment = "http" /\ response[p].kind # "none"
                      THEN NoUser ELSE currentUserId
  /\ boundUser' = Set(boundUser, p, NoUser)
  /\ pc' = Set(pc, p, "idle")
  /\ auth' = Set(auth, p, NoUser)
  /\ session' = Set(session, p, NoHeld)
  /\ modeSession' = Set(modeSession, p, NoSession)
  /\ mode' = Set(mode, p, "null")
  /\ created' = Set(created, p, 0)
  /\ response' = Set(response, p, NoResponse)
  /\ UNCHANGED <<evaluated, deployment, backend, now, nextId, store, expiring, lastEnsured,
                 calls, lastDose, lastOp>>

\* ------------------------------------------------------------------------
\* initialize_session
\* ------------------------------------------------------------------------
\* the user_id argument: any owner over http; the stdio server has one client
InitUsers == IF deployment = "http" THEN Owners ELSE {CHOOSE u \in Owners : TRUE}

InitializeSession(p, cap, track, doses) ==
  /\ pc[p] = "i_create"
  /\ nextId <= cap
  /\ \E d \in doses, u \in InitUsers, a \in AnchorInputs :
       /\ store' = createSession(store, nextId, d, u, a, now)
       /\ lastDose' = IF ~track THEN lastDose
                      ELSE IF deployment = "http" /\ u # auth[p] THEN NoDose
                      ELSE [caller |-> auth[p], id |-> nextId, dose |-> d]
       /\ response' = Set(response, p,
            [NoResponse EXCEPT !.kind = "init", !.session_id = nextId,
                               !.dose_um = d,
                               !.intensity = calculateIntensity(d),
                               !.warning = getHighDoseWarning(d)])
  /\ nextId' = nextId + 1
  /\ created' = Set(created, p, created[p] + 1)
  /\ lastEnsured' = NoEnsured
  /\ pc' = Set(pc, p, FinishPc)
  /\ UNCHANGED <<evaluated, deployment, backend, now, currentUserId, auth, session,
                 modeSession, expiring, mode, calls, boundUser, lastOp>>

\* ------------------------------------------------------------------------
\* Mode activation: ensureSession, setCurrentMode, the response
\* ------------------------------------------------------------------------
\* One step of `await getActiveSession()` by call p at its current pc: the
\* lookup either returns (the call moves to found / missing) or, in the
\* Postgres store, has an expired row still to mark (the call stays).
Resolve(p, o, found, missing) ==
  /\ store' = o.st
  /\ expiring' = Set(expiring, p, o.expiring)
  /\ pc' = Set(pc, p, IF ~o.done THEN pc[p]
                      ELSE IF o.id # NoSession THEN found ELSE missing)

\* ensureSession: let session = await getActiveSession()
EnsureGet(p, track) ==
  /\ pc[p] = "e_get"
  /\ \E o \in getActiveSession(p) :
       /\ Resolve(p, o, "m_get", "e_create")
       /\ session' = Set(session, p, Hold(o.st, o.id))
       /\ lastEnsured' = IF track /\ o.done /\ o.id # NoSession
                         THEN [caller |-> auth[p], id |-> o.id] ELSE lastEnsured
  /\ UNCHANGED <<evaluated, deployment, backend, now, nextId, currentUserId, auth,
                 modeSession, mode, created, response, calls,
                 boundUser, lastDose, lastOp>>

\* ensureSession: await createSession({DEFAULT_DOSE_UM, ..., ["factual_accuracy"]})
EnsureCreate(p, cap) ==
  /\ pc[p] = "e_create"
  /\ nextId <= cap
  /\ store' = createSession(store, nextId, DEFAULT_DOSE_UM, AmbientOwner,
                            {"factual_accuracy"}, now)
  /\ nextId' = nextId + 1
  /\ created' = Set(created, p, created[p] + 1)
  /\ pc' = Set(pc, p, "e_reget")
  /\ UNCHANGED <<evaluated, deployment, backend, now, currentUserId, auth, session,
                 modeSession, expiring, mode, response, lastEnsured, calls,
                 boundUser, lastDose, lastOp>>

\* ensureSession: session = await getActiveSession(); throw if still null
\* (handleToolCall turns the throw into an error result)
EnsureReget(p, track) ==
  /\ pc[p] = "e_reget"
  /\ \E o \in getActiveSession(p) :
       /\ Resolve(p, o, "m_get", FinishPc)
       /\ session' = Set(session, p, Hold(o.st, o.id))
       /\ lastEnsured' = IF track /\ o.done /\ o.id # NoSession
                         THEN [caller |-> auth[p], id |-> o.id] ELSE lastEnsured
       /\ response' = IF o.done /\ o.id = NoSession
                      THEN Set(response, p, [NoResponse EXCEPT !.kind = "error"])
                      ELSE response
  /\ UNCHANGED <<evaluated, deployment, backend, now, nextId, currentUserId, auth,
                 modeSession, mode, created, calls,
                 boundUser, lastDose, lastOp>>

\* setCurrentMode: const session = await getActiveSession()
ModeGet(p) ==
  /\ pc[p] = "m_get"
  /\ \E o \in getActiveSession(p) :
       /\ Resolve(p, o, "m_update", "m_respond")
       /\ modeSession' = Set(modeSession, p, o.id)
  /\ UNCHANGED <<evaluated, deployment, backend, now, nextId, currentUserId, auth,
                 session, mode, created, response, lastEnsured, calls,
                 boundUser, lastDose, lastOp>>

\* the fields setCurrentMode hands to storage.update
setCurrentModeUpdatesRenewing(m) ==
  [current_mode |-> m, status |-> "active",
   expires_at |-> MaxTime + SESSION_DURATION_HOURS]

setCurrentModeUpdates(m) == [current_mode |-> m, status |-> "active"]

\* setCurrentMode: await storage.update(session_id, {current_mode, status: "active"})
\* (the mode is the one the tool names; it plays no part before this step)
ModeUpdate(p) ==
  /\ pc[p] = "m_update"
  /\ \E m \in Modes :
       /\ mode' = Set(mode, p, m)
       /\ store' = StorageUpdate(store, modeSession[p], setCurrentModeUpdates(m))
  /\ pc' = Set(pc, p, "m_respond")
  /\ UNCHANGED <<evaluated, deployment, backend, now, nextId, currentUserId, auth,
                 session, modeSession, expiring, created, response,
                 lastEnsured, calls,
                 boundUser, lastDose, lastOp>>

\* the mode function after `await setCurrentMode(...)`: it reads the intensity
\* and the dose of the session ensureSession gave it
ModeRespond(p) ==
  /\ pc[p] = "m_respond"
  /\ \E m \in (IF mode[p] = "null" THEN Modes ELSE {mode[p]}) :
       /\ mode' = Set(mode, p, m)
       /\ response' = Set(response, p,
            [NoResponse EXCEPT !.kind = "mode", !.session_id = session[p].id,
                               !.mode = m,
                               !.dose_um = HeldDose(store, session[p]),
                               !.intensity = HeldIntensity(store, session[p]),
                               !.warning = getHighDoseWarning(HeldDose(store, session[p]))])
  /\ pc' = Set(pc, p, FinishPc)
  /\ UNCHANGED <<evaluated, deployment, backend, now, nextId, store, currentUserId, auth,
                 session, modeSession, expiring, created, lastEnsured, calls,
                 boundUser, lastDose, lastOp>>

\* ------------------------------------------------------------------------
\* navigate_semantic_drift (modes/semantic-drift.ts)
\* ------------------------------------------------------------------------
\* navigateSemanticDrift is not async: it calls ensureSession() and
\* setCurrentMode("semantic_drift") without awaiting them and builds its
\* response from the promise ensureSession returned, whose intensity_coefficient
\* and dose_um are undefined.  The two lookups it started, and what
\* ensureSession and setCurrentMode do with their answers, go on after the
\* response: the lookups are answered in the order they were issued, then
\* ensureSession's continuation runs, then setCurrentMode's.
DriftMode == "semantic_drift"

DriftPcs == {"d_get1", "d_get2", "d_create", "d_reget", "d_update"}

DriftCall(p) ==
  /\ pc[p] = "d_call"
  /\ boundUser' = Set(boundUser, p, currentUserId)
  /\ mode' = Set(mode, p, DriftMode)
  /\ response' = Set(response, p,
       [NoResponse EXCEPT !.kind = "mode", !.mode = DriftMode,
                          !.dose_um = Undefined, !.intensity = Undefined,
                          !.warning = getHighDoseWarning(Undefined)])
  /\ pc' = Set(pc, p, "d_get1")
  /\ UNCHANGED <<evaluated, deployment, backend, now, nextId, store, currentUserId, auth,
                 session, modeSession, expiring, created, lastEnsured, calls,
                 lastDose, lastOp>>

\* the result has gone back to the client (POST: finally setCurrentUserId(null))
\* while the calls navigateSemanticDrift started are still under way
DriftReturn(p) ==
  /\ pc[p] \in DriftPcs
  /\ response[p].kind # "none"
  /\ response' = Set(response, p, NoResponse)
  /\ currentUserId' = IF deployment = "http" THEN NoUser ELSE currentUserId
  /\ UNCHANGED <<evaluated, deployment, backend, now, nextId, store, pc, auth, session,
                 modeSession, expiring, mode, created, lastEnsured, calls,
                 boundUser, lastDose, lastOp>>

\* ensureSession: the answer to its getActiveSession()
DriftGet1(p) ==
  /\ pc[p] = "d_get1"
  /\ \E o \in getActiveSessionAs(p, boundUser[p]) :
       /\ store' = o.st
       /\ expiring' = Set(expiring, p, o.expiring)
       /\ session' = Set(session, p, Hold(o.st, o.id))
       /\ pc' = Set(pc, p, IF o.done THEN "d_get2" ELSE pc[p])
  /\ UNCHANGED <<evaluated, deployment, backend, now, nextId, currentUserId, auth,
                 modeSession, mode, created, response, lastEnsured, calls,
                 boundUser, lastDose, lastOp>>

\* setCurrentMode: the answer to its getActiveSession()
DriftGet2(p) ==
  /\ pc[p] = "d_get2"
  /\ \E o \in getActiveSessionAs(p, boundUser[p]) :
       /\ store' = o.st
       /\ expiring' = Set(expiring, p, o.expiring)
       /\ modeSession' = Set(modeSession, p, o.id)
       /\ pc' = Set(pc, p, IF ~o.done THEN pc[p]
                           ELSE IF session[p].id = NoSession THEN "d_create"
                           ELSE IF o.id # NoSession THEN "d_update"
                           ELSE FinishPc)
  /\ UNCHANGED <<evaluated, deployment, backend, now, nextId, currentUserId, auth,
                 session, mode, created, response, lastEnsured, calls,
                 boundUser, lastDose, lastOp>>

\* ensureSession: await createSession({DEFAULT_DOSE_UM, ..., ["factual_accuracy"]})
DriftCreate(p, cap) ==
  /\ pc[p] = "d_create"
  /\ nextId <= cap
  /\ store' = createSession(store, nextId, DEFAULT_DOSE_UM, AmbientOwner,
                            {"factual_accuracy"}, now)
  /\ nextId' = nextId + 1
  /\ created' = Set(created, p, created[p] + 1)
  /\ pc' = Set(pc, p, "d_reget")
  /\ UNCHANGED <<evaluated, deployment, backend, now, currentUserId, auth, session,
                 modeSession, expiring, mode, response, lastEnsured, calls,
                 boundUser, lastDose, lastOp>>

\* ensureSession: session = await getActiveSession(); nobody holds the promise
\* it resolves or rejects
DriftReget(p) ==
  /\ pc[p] = "d_reget"
  /\ \E o \in getActiveSession(p) :
       /\ store' = o.st
       /\ expiring' = Set(expiring, p, o.expiring)
       /\ session' = Set(session, p, Hold(o.st, o.id))
       /\ pc' = Set(pc, p, IF ~o.done THEN pc[p]
                           ELSE IF modeSession[p] # NoSession THEN "d_update"
                           ELSE FinishPc)
  /\ UNCHANGED <<evaluated, deployment, backend, now, nextId, currentUserId, auth,
                 modeSession, mode, created, response, lastEnsured, calls,
                 boundUser, lastDose, lastOp>>

\* setCurrentMode: await storage.update(session_id, {current_mode, status: "active"})
DriftUpdate(p) ==
  /\ pc[p] = "d_update"
  /\ store' = StorageUpdate(store, modeSession[p], setCurrentModeUpdates(DriftMode))
  /\ pc' = Set(pc, p, FinishPc)
  /\ UNCHANGED <<evaluated, deployment, backend, now, nextId, currentUserId, auth,
                 session, modeSession, expiring, mode, created, response,
                 lastEnsured, calls, boundUser, lastDose, lastOp>>

\* ------------------------------------------------------------------------
\* adjust_dose
\* ------------------------------------------------------------------------
\* adjustDose: let session = await getActiveSession()
AdjustGet(p) ==
  /\ pc[p] = "a_get"
  /\ \E o \in getActiveSession(p) :
       /\ Resolve(p, o, "a_update", "a_create")
       /\ session' = Set(session, p, Hold(o.st, o.id))
  /\ UNCHANGED <<evaluated, deployment, backend, now, nextId, currentUserId, auth,
                 modeSession, mode, created, response, lastEnsured, calls,
                 boundUser, lastDose, lastOp>>

\* adjustDose: await createSession({DEFAULT_DOSE_UM, ...}); return adjustDose(params)
AdjustCreate(p, cap) ==
  /\ pc[p] = "a_create"
  /\ nextId <= cap
  /\ store' = createSession(store, nextId, DEFAULT_DOSE_UM, AmbientOwner, {}, now)
  /\ nextId' = nextId + 1
  /\ created' = Set(created, p, created[p] + 1)
  /\ pc' = Set(pc, p, "a_get")
  /\ UNCHANGED <<evaluated, deployment, backend, now, currentUserId, auth, session,
                 modeSession, expiring, mode, response, lastEnsured, calls,
                 boundUser, lastDose, lastOp>>

adjustDoseUpdatesDoseOnly(new_dose_um) == [dose_um |-> new_dose_um]

adjustDoseUpdatesReviving(new_dose_um) ==
  [dose_um |-> new_dose_um,
   intensity_coefficient |-> calculateIntensity(new_dose_um),
   status |-> "active"]

\* the fields adjustDose hands to storage.update
adjustDoseUpdates(new_dose_um) ==
  [dose_um |-> new_dose_um,
   intensity_coefficient |-> calculateIntensity(new_dose_um)]

\* adjustDose: previous_* from the session held, storage.update, the response
AdjustUpdate(p, track, doses) ==
  /\ pc[p] = "a_update"
  /\ \E d \in doses :
       /\ store' = StorageUpdate(store, session[p].id, adjustDoseUpdates(d))
       /\ lastDose' = IF ~track THEN lastDose
                      ELSE [caller |-> auth[p], id |-> session[p].id, dose |-> d]
       /\ response' = Set(response, p,
            [NoResponse EXCEPT !.kind = "adjust", !.session_id = session[p].id,
                               !.previous_dose_um = HeldDose(store, session[p]),
                               !.previous_intensity = HeldIntensity(store, session[p]),
                               !.dose_um = d,
                               !.intensity = calculateIntensity(d),
                               !.warning = getHighDoseWarning(d)])
  /\ pc' = Set(pc, p, FinishPc)
  /\ UNCHANGED <<evaluated, deployment, backend, now, nextId, currentUserId, auth,
                 session, modeSession, expiring, mode, created, lastEnsured,
                 calls, boundUser, lastOp>>

\* ------------------------------------------------------------------------
\* The clock and the sweep
\* ------------------------------------------------------------------------
Tick ==
  /\ now + TickHours <= MaxTime
  /\ now' = now + TickHours
  /\ UNCHANGED <<evaluated, deployment, backend, nextId, store, currentUserId, pc, auth,
                 session, modeSession, expiring, mode, created, response,
                 lastEnsured, calls,
                 boundUser, lastDose, lastOp>>

\* clearExpiredSessions: storage.clearExpired() and the count it returns
ClearExpiredSessions(track) ==
  /\ store' = StorageClearExpired(store, now)
  /\ store' # store
  /\ lastOp' = IF track
                THEN Op("clearExpired", NoSession, StorageClearExpiredCount(store, now))
                ELSE lastOp
  /\ UNCHANGED <<evaluated, deployment, backend, now, nextId, currentUserId, pc, auth,
                 session, modeSession, expiring, mode, created, response,
                 lastEnsured, calls, boundUser, lastDose>>

\* ------------------------------------------------------------------------
\* Specifications
\* ------------------------------------------------------------------------
Step(p, cap, track, doses) ==
  \/ EndRequest(p)
  \/ InitializeSession(p, cap, track, doses)
  \/ EnsureGet(p, track)
  \/ EnsureCreate(p, cap)
  \/ EnsureReget(p, track)
  \/ ModeGet(p)
  \/ ModeUpdate(p)
  \/ ModeRespond(p)
  \/ AdjustGet(p)
  \/ AdjustCreate(p, cap)
  \/ AdjustUpdate(p, track, doses)
  \/ DriftCall(p)
  \/ DriftReturn(p)
  \/ DriftGet1(p)
  \/ DriftGet2(p)
  \/ DriftCreate(p, cap)
  \/ DriftReget(p)
  \/ DriftUpdate(p)

\* tool calls interleave at their awaits
Next ==
  \/ \E p \in Procs : StartCall(p, MaxConcurrentCalls)
  \/ \E p \in Procs : Step(p, MaxConcurrentSessions, FALSE, DoseInputs)
  \/ Tick
  \/ ClearExpiredSessions(FALSE)

Spec == Init /\ [][Next]_vars

\* one tool call at a time: a call arrives only when no other is in flight
NoCallInFlight == \A p \in Procs : pc[p] = "idle"

\* (which call slot serves the call makes no difference then)
SeqProc == CHOOSE p \in Procs : TRUE

NextSeq ==
  \/ NoCallInFlight /\ StartCall(SeqProc, MaxCalls)
  \/ Step(SeqProc, MaxSessions, TRUE, DoseInputs)
  \/ Tick
  \/ ClearExpiredSessions(TRUE)

SpecSeq == Init /\ [][NextSeq]_vars

\* one tool call at a time, with doses on both sides of the warning threshold
WarningDoses == {HIGH_DOSE_WARNING_THRESHOLD - 1, HIGH_DOSE_WARNING_THRESHOLD}

NextDose ==
  \/ NoCallInFlight /\ StartCall(SeqProc, MaxDoseCalls)
  \/ Step(SeqProc, MaxDoseSessions, TRUE, WarningDoses)
  \/ Tick
  \/ ClearExpiredSessions(TRUE)

SpecDose == Init /\ [][NextDose]_vars

\* ------------------------------------------------------------------------
\* adjust_dose calls on their own, interleaved at their awaits, with two
\* doses to tell them apart
\* ------------------------------------------------------------------------
AdjustDoses == {2 * DEFAULT_DOSE_UM, HIGH_DOSE_WARNING_THRESHOLD}

AdjustStep(p) ==
  \/ EndRequest(p)
  \/ AdjustGet(p)
  \/ AdjustCreate(p, MaxConcurrentSessions)
  \/ AdjustUpdate(p, FALSE, AdjustDoses)

NextAdjust ==
  \/ \E p \in Procs : Arrive(p, "a_get", MaxAdjustCalls)
  \/ \E p \in Procs : AdjustStep(p)
  \/ Tick
  \/ ClearExpiredSessions(FALSE)

SpecAdjust == Init /\ [][NextAdjust]_vars

\* ------------------------------------------------------------------------
\* The storage interface on its own (SessionStorage and
\* getActiveSessionForUser), called in any order with any id
\* ------------------------------------------------------------------------
StoreUpdates ==
  {setCurrentModeUpdates(m) : m \in Modes} \cup {adjustDoseUpdates(d) : d \in DoseInputs}

StoreFrame ==
  UNCHANGED <<evaluated, deployment, backend, now, currentUserId, pc, auth, session,
              modeSession, expiring, mode, created, response, calls,
              lastEnsured, boundUser, lastDose>>

StoreSave ==
  /\ nextId <= MaxStoreSessions
  /\ \E d \in DoseInputs, u \in Owners, a \in AnchorInputs :
       store' = StorageSave(store, nextId, NewSession(d, u, a, now))
  /\ nextId' = nextId + 1
  /\ lastOp' = Op("save", nextId, 0)
  /\ StoreFrame

\* a whole lookup: the Postgres one marks the row it found expired before it
\* returns null
StoreGetActive ==
  /\ \E u \in Owners \cup {NoUser} :
       \E o \in (IF u = NoUser THEN StorageGetActive(store, now)
                 ELSE getActiveSessionForUser(store, u, now)) :
         /\ store' = IF o.done THEN o.st ELSE RemoteMarkExpired(o.st, o.expiring).st
         /\ lastOp' = Op("getActive", o.id, 0)
  /\ UNCHANGED nextId
  /\ StoreFrame

StoreUpdate ==
  /\ \E id \in Ids, updates \in StoreUpdates :
       /\ store' = StorageUpdate(store, id, updates)
       /\ lastOp' = Op("update", id, 0)
  /\ UNCHANGED nextId
  /\ StoreFrame

StoreDelete ==
  /\ \E id \in Ids :
       /\ store' = StorageDelete(store, id)
       /\ lastOp' = Op("delete", id, 0)
  /\ UNCHANGED nextId
  /\ StoreFrame

NextStore ==
  \/ StoreSave
  \/ StoreGetActive
  \/ StoreUpdate
  \/ StoreDelete
  \/ ClearExpiredSessions(TRUE)
  \/ Tick

SpecStore == Init /\ [][NextStore]_vars

\* ------------------------------------------------------------------------
\* The mode derivations on their own: each step evaluates one of them at an
\* intensity and a requested value of the caller
\* ------------------------------------------------------------------------
MaxHybridCount == 12

\* hybrid_count: an integer, minimum 1 (index.ts)
HybridRequests == {NoRequest} \cup (1..MaxHybridCount)
\* the numeric knobs: minimum 0, maximum 1 (index.ts), here in steps of 0.01
KnobRequests == {NoRequest} \cup {10 * r : r \in 0..100}
\* the same range in steps of 0.005, for the knobs whose result is rounded
BlendRequests == {NoRequest} \cup {5 * r : r \in 0..200}

\* the server at start, about to derive a response from an intensity and a
\* requested value
InitEvaluate(requests) ==
  /\ InitProgram
  /\ deployment = "stdio"
  /\ backend = "Local"
  /\ evaluated \in {[NoEvaluation EXCEPT !.intensity = i, !.requested = r] :
                      i \in Intensities, r \in requests}

EvaluateFrame ==
  UNCHANGED <<deployment, backend, now, nextId, store, currentUserId, pc, auth,
              session, modeSession, expiring, mode, created, response, calls,
              lastEnsured, boundUser, lastDose, lastOp>>

\* the function named is applied to the inputs drawn at start
Evaluate(name, result) ==
  /\ evaluated' = [evaluated EXCEPT !.fn = name, !.result = result]
  /\ EvaluateFrame

givenIntensity == evaluated.intensity
givenRequest == evaluated.requested

EvalMinimumHybrids ==
  /\ givenRequest \in HybridRequests
  /\ Evaluate("minimum_hybrids", calculateMinimumHybrids(givenIntensity, givenRequest))

EvalFocusAllocation ==
  /\ givenRequest \in KnobRequests
  /\ Evaluate("focus_allocation", calculateFocusAllocation(givenIntensity, givenRequest))

EvalExplorationWeight ==
  /\ givenRequest \in KnobRequests
  /\ Evaluate("effective_exploration_weight",
              calculateExplorationWeight(givenIntensity, givenRequest))

EvalFamiliarityPenalty ==
  /\ givenRequest \in KnobRequests
  /\ Evaluate("effective_familiarity_penalty",
              calculateFamiliarityPenalty(givenIntensity, givenRequest))

EvalMinimumSurprise ==
  /\ givenRequest \in KnobRequests
  /\ Evaluate("effective_minimum_surprise",
              calculateMinimumSurprise(givenIntensity, givenRequest))

EvalSuspensionDepth ==
  /\ givenRequest \in KnobRequests
  /\ Evaluate("effective_suspension_depth",
              calculateSuspensionDepth(givenIntensity, givenRequest))

EvalAnchorStrength ==
  /\ givenRequest \in KnobRequests
  /\ Evaluate("effective_anchor_strength",
              calculateEffectiveAnchorStrength(givenIntensity, givenRequest))

EvalMappingStrictness ==
  /\ givenRequest \in BlendRequests
  /\ Evaluate("effective_mapping_strictness",
              effective_mapping_strictness(givenIntensity, givenRequest))

EvalCoherence ==
  /\ givenRequest \in BlendRequests
  /\ Evaluate("effective_coherence_preservation",
              calculateEffectiveCoherence(givenIntensity, givenRequest))

NextKnobs ==
  \/ EvalMinimumHybrids
  \/ EvalFocusAllocation
  \/ EvalExplorationWeight
  \/ EvalFamiliarityPenalty
  \/ EvalMinimumSurprise
  \/ EvalSuspensionDepth
  \/ EvalAnchorStrength
  \/ EvalMappingStrictness
  \/ EvalCoherence

SpecKnobs ==
  InitEvaluate(HybridRequests \cup KnobRequests \cup BlendRequests) /\ [][NextKnobs]_vars

\* ------------------------------------------------------------------------
\* The tier labels and the optional fields of the mode responses: each step
\* derives one of them from the intensity (and the requested count)
\* ------------------------------------------------------------------------
\* perspective_count: an integer from 2 to 10 (index.ts)
PerspectiveRequests == {NoRequest} \cup (2..10)

EvalPerspectiveCount ==
  /\ givenRequest \in PerspectiveRequests
  /\ Evaluate("perspective_count",
              calculatePerspectiveCount(givenIntensity, givenRequest))

EvalElaborationDepth ==
  Evaluate("pattern_elaboration_depth", getElaborationDepth(givenIntensity))

EvalApopheniaTolerance ==
  Evaluate("apophenia_tolerance", getApopheniaTolerance(givenIntensity))

EvalNoveltyThreshold ==
  Evaluate("novelty_threshold", getNoveltyThreshold(givenIntensity))

\* const x = getX(intensity); if (x) response.field = x
Field(x, isString) ==
  [present |-> Truthy(x, isString),
   items |-> IF Truthy(x, isString) THEN x.items ELSE {}]

EvalForbiddenAbstractions ==
  Evaluate("forbidden_abstractions",
           Field(getForbiddenAbstractions(givenIntensity), FALSE))

EvalMandatoryMappings ==
  Evaluate("mandatory_mappings",
           Field(getMandatoryMappings(givenIntensity), FALSE))

EvalConstraintRelaxation ==
  Evaluate("constraint_relaxation",
           Field(getConstraintRelaxation(givenIntensity), FALSE))

EvalSuspendedRules ==
  Evaluate("suspended_rules", Field(getSuspendedRules(givenIntensity), FALSE))

EvalMaintainedRules ==
  Evaluate("maintained_rules", Field(getMaintainedRules(givenIntensity), FALSE))

EvalCognitiveState ==
  \E m \in AllModes :
    /\ mode' = Set(mode, SeqProc, m)
    /\ evaluated' = [evaluated EXCEPT
         !.fn = "cognitive_state",
         !.result = Field(getCognitiveState(m, givenIntensity), TRUE)]
    /\ UNCHANGED <<deployment, backend, now, nextId, store, currentUserId, pc,
                   auth, session, modeSession, expiring, created, response,
                   calls, lastEnsured, boundUser, lastDose, lastOp>>

NextTiers ==
  \/ EvalMinimumHybrids
  \/ EvalPerspectiveCount
  \/ EvalElaborationDepth
  \/ EvalApopheniaTolerance
  \/ EvalNoveltyThreshold
  \/ EvalForbiddenAbstractions
  \/ EvalMandatoryMappings
  \/ EvalConstraintRelaxation
  \/ EvalSuspendedRules
  \/ EvalMaintainedRules
  \/ EvalCognitiveState

SpecTiers ==
  InitEvaluate(HybridRequests \cup PerspectiveRequests) /\ [][NextTiers]_vars

\* ------------------------------------------------------------------------
\* The transfer function and the range classifier on their own: each step
\* applies one of them to a dose
\* ------------------------------------------------------------------------
InitDose ==
  /\ InitProgram
  /\ deployment = "stdio"
  /\ backend = "Local"
  /\ evaluated \in {[NoEvaluation EXCEPT !.dose = d] : d \in DoseSamples}

EvalIntensity == Evaluate("calculateIntensity", calculateIntensity(evaluated.dose))

EvalDoseRange == Evaluate("getDoseRange", getDoseRange(evaluated.dose))

NextCurve == EvalIntensity \/ EvalDoseRange

SpecCurve == InitDose /\ [][NextCurve]_vars

\* ------------------------------------------------------------------------
\* The dose effects on their own: each step describes one intensity
\* ------------------------------------------------------------------------
EvalDoseEffects == Evaluate("calculateDoseEffects", calculateDoseEffects(givenIntensity))

NextEffects == EvalDoseEffects

SpecEffects == InitEvaluate({NoRequest}) /\ [][NextEffects]_vars

\* ------------------------------------------------------------------------
\* The numeric knobs of the mode responses on their own: each step derives
\* one of them from an intensity and a requested value inside its schema range
\* ------------------------------------------------------------------------
EvalPatternSensitivity ==
  Evaluate("pattern_sensitivity", calculatePatternSensitivity(givenIntensity))

EvalReturnProbability ==
  Evaluate("return_probability", calculateReturnProbability(givenIntensity))

NextRanges ==
  \/ EvalFocusAllocation
  \/ EvalExplorationWeight
  \/ EvalFamiliarityPenalty
  \/ EvalMinimumSurprise
  \/ EvalSuspensionDepth
  \/ EvalAnchorStrength
  \/ EvalMappingStrictness
  \/ EvalCoherence
  \/ EvalPerspectiveCount
  \/ EvalPatternSensitivity
  \/ EvalReturnProbability

SpecRanges ==
  InitEvaluate(BlendRequests \cup PerspectiveRequests) /\ [][NextRanges]_vars

\* ------------------------------------------------------------------------
\* Vocabulary of the properties
\* ------------------------------------------------------------------------
Stored == store.sessions
Obj(i) == store.objects[i]
IsExpired(s, t) == t > s.expires_at

LookupPcs == {"e_get", "e_reget", "m_get", "a_get", "d_get1", "d_get2", "d_reget"}

\* the userId call p's pending lookup was called with
LookupUser(p) ==
  IF pc[p] \in {"d_get1", "d_get2"} THEN boundUser[p] ELSE currentUserId

\* call p's getActiveSession returns in this step, and what it returns
LookupReturns(p) == pc[p] \in LookupPcs /\ pc'[p] # pc[p]
Returned(p) ==
  IF pc[p] \in {"m_get", "d_get2"} THEN modeSession'[p] ELSE session'[p].id

\* the session call p's lookup is about to resolve to, in the stores that
\* keep a pointer to it, and the row a Postgres lookup found expired
Candidate(p) ==
  IF expiring[p] # NoSession THEN expiring[p]
  ELSE IF backend = "Remote" THEN NoSession
  ELSE IF backend = "LocalIndexed" /\ LookupUser(p) # NoUser
       THEN store.userSessions[LookupUser(p)]
  ELSE store.activeSessionId

\* the sessions the active-session lookup for owner u can return in store st
\* at time t (none: the empty set)
ResolvesTo(st, t, u) ==
  {o.id : o \in getActiveSessionForUser(st, u, t)} \ {NoSession}

\* ------------------------------------------------------------------------
\* C1: every stored session's intensity_coefficient is calculateIntensity of
\* its dose_um, in every state any interleaving of initialize_session,
\* adjust_dose, mode activations and expiry detection reaches.
\* ------------------------------------------------------------------------
C1_IntensityFollowsDose ==
  \A i \in Stored :
    Obj(i).intensity_coefficient = calculateIntensity(Obj(i).dose_um)

\* a call has adjusted a stored session from the default dose to another one
C1_Witness ==
  \E p \in Procs :
    /\ response[p].kind = "adjust"
    /\ response[p].previous_dose_um = DEFAULT_DOSE_UM
    /\ response[p].session_id \in Stored
    /\ Obj(response[p].session_id).dose_um = response[p].dose_um
    /\ response[p].dose_um # DEFAULT_DOSE_UM

\* ------------------------------------------------------------------------
\* C2: the status of a session changes only initialized -> active and
\* initialized | active -> expired; expired is never left.
\* ------------------------------------------------------------------------
LegalStatusChange(a, b) ==
  \/ a = b
  \/ a = "initialized" /\ b = "active"
  \/ a \in {"initialized", "active"} /\ b = "expired"

C2_StatusTransitions ==
  [][\A i \in Stored :
       LegalStatusChange(Obj(i).status, store'.objects[i].status)]_vars

\* ------------------------------------------------------------------------
\* C3: while the lookup for an owner resolves to one session, it resolves to
\* no other session of the store until a session is saved, or the first one
\* expires or is removed.
\* ------------------------------------------------------------------------
C3_OneActivePerOwner ==
  [][\A u \in Owners : \A a, b \in Ids :
       ( /\ a # b
         /\ ResolvesTo(store, now, u) = {a}
         /\ b \in ResolvesTo(store', now', u) )
       => \/ store'.sessions \ store.sessions # {}
          \/ IsExpired(store'.objects[a], now')
          \/ a \notin store'.sessions]_vars

\* ------------------------------------------------------------------------
\* C4: once save(s) of a non-expired session has completed, the lookup for
\* s.user_id can return s.
\* ------------------------------------------------------------------------
C4_SavedSessionIsActive ==
  [][\A i \in Ids :
       ( /\ i \notin store.sessions
         /\ i \in store'.sessions
         /\ ~IsExpired(store'.objects[i], now') )
       => i \in ResolvesTo(store', now', store'.objects[i].user_id)]_vars

\* ------------------------------------------------------------------------
\* C5: a lookup never returns a session that has expired; when the session
\* it would resolve to has expired it returns none and that session's stored
\* status is expired when it returns.
\* ------------------------------------------------------------------------
C5_ExpiryOnRead ==
  [][\A p \in Procs :
       LookupReturns(p) =>
         /\ Returned(p) # NoSession
              => ~IsExpired(store'.objects[Returned(p)], now')
         /\ ( /\ Candidate(p) \in Stored
              /\ IsExpired(Obj(Candidate(p)), now) )
              => /\ Returned(p) = NoSession
                 /\ store'.objects[Candidate(p)].status = "expired"]_vars

\* a lookup has come back empty-handed from an expired session
C5_Witness ==
  \E p \in Procs :
    /\ pc[p] \in {"e_create", "a_create", "m_respond"}
    /\ \E i \in Stored : /\ Obj(i).status = "expired"
                         /\ IsExpired(Obj(i), now)

\* ------------------------------------------------------------------------
\* C6: a lookup made for owner u returns only a session whose user_id is u.
\* ------------------------------------------------------------------------
C6_LookupReturnsOwnSession ==
  [][\A p \in Procs :
       ( /\ LookupReturns(p)
         /\ expiring[p] = NoSession
         /\ LookupUser(p) # NoUser
         /\ Returned(p) # NoSession )
       => store'.objects[Returned(p)].user_id = LookupUser(p)]_vars

\* ------------------------------------------------------------------------
\* C7: an ensureSession that follows an ensureSession of the same caller,
\* with no initialize_session in between and the session still unexpired,
\* returns the same session id.
\* ------------------------------------------------------------------------
EnsureReturns(p) == pc[p] \in {"e_get", "e_reget"} /\ pc'[p] = "m_get"

C7_EnsureSessionIsStable ==
  [][\A p \in Procs :
       ( /\ EnsureReturns(p)
         /\ lastEnsured.id # NoSession
         /\ lastEnsured.caller = auth[p]
         /\ ~IsExpired(Obj(lastEnsured.id), now) )
       => session'[p].id = lastEnsured.id]_vars

\* ------------------------------------------------------------------------
\* C8: ensureSession never fails: no mode activation ends in the error
\* "Failed to create session".
\* ------------------------------------------------------------------------
C8_EnsureSessionNeverFails ==
  \A p \in Procs : response[p].kind # "error"

\* ------------------------------------------------------------------------
\* C9: one adjust_dose call creates at most one session (it retries at most
\* once).
\* ------------------------------------------------------------------------
AdjustPcs == {"a_get", "a_create", "a_update"}

C9_AdjustCreatesAtMostOne ==
  \A p \in Procs : pc[p] \in AdjustPcs => created[p] <= 1

\* ------------------------------------------------------------------------
\* C10: with no concurrent call, adjust_dose(d) on session s reports s's
\* stored dose and intensity as the previous ones, reports and stores
\* calculateIntensity(d), and reports the default dose as the previous dose
\* when it had to create the session.
\* ------------------------------------------------------------------------
C10_AdjustDoseResponse ==
  [][\A p \in Procs :
       (pc[p] = "a_update" /\ pc'[p] # "a_update") =>
         LET r == response'[p]
             s == r.session_id
         IN  /\ r.kind = "adjust"
             /\ s = session[p].id
             /\ r.previous_dose_um = Obj(s).dose_um
             /\ r.previous_intensity = Obj(s).intensity_coefficient
             /\ r.intensity = calculateIntensity(r.dose_um)
             /\ s \in Stored =>
                  /\ store'.objects[s].dose_um = r.dose_um
                  /\ store'.objects[s].intensity_coefficient
                       = calculateIntensity(r.dose_um)
             /\ created[p] > 0 => r.previous_dose_um = DEFAULT_DOSE_UM]_vars

\* ------------------------------------------------------------------------
\* C11: once a caller's initialize_session(d) or adjust_dose(d) has
\* completed, every mode activation of that caller echoes
\* calculateIntensity(d) as its effective intensity, until the session
\* expires or a dose is set again.
\* ------------------------------------------------------------------------
\* call p's mode activation builds its response in this step
ModeResponds(p) == response'[p].kind = "mode" /\ response[p].kind # "mode"

C11_ModesEchoTheDoseSet ==
  [][\A p \in Procs :
       ( /\ ModeResponds(p)
         /\ lastDose.id # NoSession
         /\ lastDose.caller = auth[p]
         /\ ~IsExpired(Obj(lastDose.id), now) )
       => response'[p].intensity = calculateIntensity(lastDose.dose)]_vars

\* ------------------------------------------------------------------------
\* C12: every stored session lives exactly SESSION_DURATION_HOURS, and no
\* step changes the created_at or the expires_at of a stored session.
\* ------------------------------------------------------------------------
C12_LifetimeIsFixed ==
  [][\A i \in store'.sessions :
       /\ store'.objects[i].expires_at - store'.objects[i].created_at
            = SESSION_DURATION_HOURS
       /\ i \in Stored =>
            /\ store'.objects[i].created_at = Obj(i).created_at
            /\ store'.objects[i].expires_at = Obj(i).expires_at]_vars

\* an auto-created session has had its dose adjusted, a mode activated and
\* its expiry detected
C12_Witness ==
  \E i \in Stored :
    /\ Obj(i).safety_anchors \notin AnchorInputs
    /\ Obj(i).dose_um # DEFAULT_DOSE_UM
    /\ Obj(i).current_mode # "null"
    /\ Obj(i).status = "expired"
    /\ Obj(i).expires_at = Obj(i).created_at + SESSION_DURATION_HOURS

\* ------------------------------------------------------------------------
\* C13: clearExpired removes exactly the sessions whose expires_at is
\* earlier than now, returns how many it removed, and leaves every other
\* session stored and unchanged.
\* ------------------------------------------------------------------------
\* this step is a clearExpired that removed something
SweepStep == lastOp'.op = "clearExpired" /\ store'.sessions # store.sessions

C13_ClearExpiredCounts ==
  [][SweepStep =>
       /\ store'.sessions = {i \in Stored : ~(Obj(i).expires_at < now)}
       /\ lastOp'.result = Cardinality(store.sessions \ store'.sessions)
       /\ \A i \in store'.sessions : store'.objects[i] = Obj(i)]_vars

\* ------------------------------------------------------------------------
\* C14: update(id, fields) and delete(id) with an id the store does not hold
\* leave the whole store (records, owner index, active pointer) unchanged.
\* ------------------------------------------------------------------------
\* this step is an update or a delete of an id the store did not hold
UnknownIdStep == lastOp'.op \in {"update", "delete"} /\ ~lastOp'.known

C14_UnknownIdLeavesStore ==
  [][UnknownIdStep => store' = store]_vars

\* C14, amended: update and delete of an id the store does not hold leave the
\* records and the owner index unchanged; the active pointer changes only
\* when delete(id) finds it still naming id, and then to none; no lookup
\* returns anything else than before; doing the same call again changes
\* nothing more.
LookupResults(st) ==
  [u \in Owners \cup {NoUser} |->
     {o.id : o \in (IF u = NoUser THEN StorageGetActive(st, now)
                    ELSE getActiveSessionForUser(st, u, now))}]

C14_UnknownIdIsSilent ==
  [][UnknownIdStep =>
       /\ store'.sessions = store.sessions
       /\ store'.objects = store.objects
       /\ store'.userSessions = store.userSessions
       /\ \/ store'.activeSessionId = store.activeSessionId
          \/ /\ lastOp'.op = "delete"
             /\ store.activeSessionId = lastOp'.id
             /\ store'.activeSessionId = NoSession
       /\ LookupResults(store') = LookupResults(store)
       /\ lastOp'.op = "delete" => StorageDelete(store', lastOp'.id) = store'
       /\ lastOp'.op = "update" =>
            \A updates \in StoreUpdates :
              StorageUpdate(store', lastOp'.id, updates) = store']_vars

\* an update and a delete have been given an id a sweep had removed while
\* other sessions were stored
C14_Witness ==
  /\ lastOp.op \in {"update", "delete"}
  /\ ~lastOp.known
  /\ lastOp.id < nextId
  /\ lastOp.id \notin Stored
  /\ Stored # {}

ActivationSession(p) ==
  IF session[p].id # NoSession THEN {session[p].id}
  ELSE LookupResults(store)[currentUserId] \ {NoSession}

C16_ModeWarningFollowsStoredDose ==
  [][\A p \in Procs :
       ModeResponds(p) =>
         ( response'[p].warning <=>
             \E i \in ActivationSession(p) :
               Obj(i).dose_um >= HIGH_DOSE_WARNING_THRESHOLD )]_vars

\* ------------------------------------------------------------------------
\* C17: a mode activation of a caller with no active session succeeds: it
\* creates exactly one session, with the default dose, its intensity, status
\* initialized and the anchors {factual_accuracy}, and its response echoes
\* that session's intensity.
\* ------------------------------------------------------------------------
\* call p's ensureSession saves the session it synthesized in this step
AutoCreates(p) == pc[p] \in {"e_create", "d_create"} /\ pc'[p] # pc[p]

\* call p is a mode activation that met no active session for its caller
NoActiveAtCall(p) ==
  \/ created[p] > 0
  \/ pc[p] = "d_call" /\ ActivationSession(p) = {}

C17_ModeAutoCreates ==
  [][\A p \in Procs :
       /\ AutoCreates(p) =>
            \E i \in Ids :
              /\ store'.sessions = Stored \cup {i}
              /\ i \notin Stored
              /\ store'.objects[i].dose_um = DEFAULT_DOSE_UM
              /\ store'.objects[i].intensity_coefficient
                   = calculateIntensity(DEFAULT_DOSE_UM)
              /\ store'.objects[i].status = "initialized"
              /\ store'.objects[i].safety_anchors = {"factual_accuracy"}
       /\ (pc[p] = "e_reget" /\ pc'[p] # "e_reget") =>
            response'[p].kind # "error"
       /\ (ModeResponds(p) /\ NoActiveAtCall(p)) =>
            /\ created[p] = 1
            /\ response'[p].session_id \in Stored
            /\ response'[p].session_id = nextId - 1
            /\ response'[p].intensity = calculateIntensity(DEFAULT_DOSE_UM)]_vars

\* ------------------------------------------------------------------------
\* C18: when a mode activation has completed, with no concurrent call, the
\* session it resolved for its caller and echoed is stored with the
\* activated mode as current_mode and with status active.
\* ------------------------------------------------------------------------
ModePcs == {"e_get", "e_create", "e_reget", "m_get", "m_update", "m_respond"}

\* call p is a mode activation and does its last step, having resolved a
\* session for its caller
ModeCompletes(p) ==
  /\ pc[p] \in ModePcs \cup DriftPcs
  /\ pc'[p] = FinishPc
  /\ session'[p].id # NoSession

C18_ActivationMarksEchoedSession ==
  [][\A p \in Procs :
       ( /\ ModeCompletes(p)
         /\ session'[p].id \in store'.sessions
         /\ ~IsExpired(store'.objects[session'[p].id], now') )
       => /\ store'.objects[session'[p].id].current_mode = mode'[p]
          /\ store'.objects[session'[p].id].status = "active"
          /\ pc[p] \in ModePcs => response'[p].session_id = session'[p].id]_vars

\* ------------------------------------------------------------------------
\* C19: whenever two interleaved ensureSession calls for one owner have
\* each created a session, exactly one of the two sessions is what a lookup
\* for that owner resolves to.
\* ------------------------------------------------------------------------
\* call p ran ensureSession and created a session in it
EnsureCreated(p) ==
  /\ pc[p] \in ModePcs \cup DriftPcs \cup {FinishPc}
  /\ response[p].kind \notin {"init", "adjust"}
  /\ created[p] = 1

\* both calls came for one owner, found no session and created one each;
\* both sessions are stored for that owner and neither has expired
TwoEnsuresCreated ==
  /\ \A p \in Procs : EnsureCreated(p)
  /\ \A p, q \in Procs : auth[p] = auth[q]
  /\ Cardinality(Stored) = 2
  /\ nextId = 3
  /\ \A i \in Stored : /\ ~IsExpired(Obj(i), now)
                       /\ Obj(i).user_id = IF auth[1] = NoUser THEN AutoUser
                                           ELSE auth[1]

C19_OneOfTwoIsActive ==
  TwoEnsuresCreated =>
    Cardinality(LookupResults(store)[auth[1]] \cap Stored) = 1

\* ------------------------------------------------------------------------
\* C20: calls made one after the other by one owner, with no expiry, get
\* the same answers from the Local and from the Remote backend: the same
\* session ids are equal, the intensities are the same and the warning is
\* present in the same answers.
\* ------------------------------------------------------------------------
\* no session created so far has expired or been removed
NoExpiry ==
  \A i \in Ids : i < nextId => i \in Stored /\ ~IsExpired(Obj(i), now)

\* call p builds its answer in this step
Responds(p) == response'[p].kind # "none" /\ response[p].kind = "none"

\* the answer the Local backend gives to a call that follows an
\* initialize_session or adjust_dose of the same caller: it is about the same
\* session and shows the dose that call set (navigate_semantic_drift reads
\* no session and shows nothing)
AnswersAsLocal(p) ==
  LET r == response'[p]
  IN  /\ r.kind # "error"
      /\ (r.kind = "mode" /\ r.mode = DriftMode) =>
           r.intensity = Undefined /\ ~r.warning
      /\ (r.kind = "mode" /\ r.mode # DriftMode) =>
           /\ r.session_id = lastDose.id
           /\ r.intensity = calculateIntensity(lastDose.dose)
           /\ r.warning <=> getHighDoseWarning(lastDose.dose)
      /\ r.kind = "adjust" =>
           /\ r.session_id = lastDose.id
           /\ r.previous_dose_um = lastDose.dose
           /\ r.previous_intensity = calculateIntensity(lastDose.dose)

C20_RemoteAnswersAsLocal ==
  [][\A p \in Procs :
       ( /\ backend \in {"Local", "Remote"}
         /\ Responds(p)
         /\ NoExpiry
         /\ lastDose.id # NoSession
         /\ lastDose.caller = auth[p] )
       => AnswersAsLocal(p)]_vars

\* ------------------------------------------------------------------------
\* C21: no step of initialize_session, adjust_dose, a mode activation or a
\* lookup that detects expiry removes a session from the store; only a sweep
\* does, and only of sessions past their expires_at; a stored session whose
\* expiry has been detected stays stored until then.
\* ------------------------------------------------------------------------
\* the step belongs to no tool call and the clock stands still
NoCallStep ==
  UNCHANGED <<now, nextId, currentUserId, pc, auth, session, modeSession,
              expiring, mode, created, response, calls, boundUser>>

FloorKnobs ==
  {"minimum_hybrids", "focus_allocation", "effective_exploration_weight",
   "effective_familiarity_penalty", "effective_minimum_surprise",
   "effective_suspension_depth"}

\* the intensity-derived base of a floor-composed knob
FloorBase(knob, intensity) ==
  CASE knob = "minimum_hybrids" -> MinimumHybridsBase(intensity)
    [] knob = "focus_allocation" -> FocusAllocationBase(intensity)
    [] knob = "effective_exploration_weight" -> ExplorationWeightBase(intensity)
    [] knob = "effective_familiarity_penalty" -> FamiliarityPenaltyBase(intensity)
    [] knob = "effective_minimum_surprise" -> MinimumSurpriseBase(intensity)
    [] knob = "effective_suspension_depth" -> SuspensionDepthBase(intensity)

C22_FloorComposition ==
  (evaluated.fn \in FloorKnobs /\ evaluated.requested # NoRequest) =>
    LET base == FloorBase(evaluated.fn, evaluated.intensity)
    IN  /\ evaluated.requested < base => evaluated.result = base
        /\ evaluated.requested > base => evaluated.result = evaluated.requested

\* focus_allocation was requested below its base at a middle intensity, and
\* came out as the base
C22_Witness ==
  /\ evaluated.fn = "focus_allocation"
  /\ evaluated.intensity = 50
  /\ evaluated.requested # NoRequest
  /\ evaluated.requested < FocusAllocationBase(50)
  /\ evaluated.result = FocusAllocationBase(50)

BlendKnobs == {"effective_mapping_strictness", "effective_coherence_preservation"}

Blend(knob, intensity, requested) ==
  IF knob = "effective_mapping_strictness"
  THEN effective_mapping_strictness(intensity, requested)
  ELSE calculateEffectiveCoherence(intensity, requested)

\* neither of the two requested values lo < hi is cut by the knob's clamp
ClampNotReached(knob, intensity, lo, hi) ==
  IF knob = "effective_mapping_strictness"
  THEN hi + intensity * 3 <= 1000
  ELSE lo - intensity * 4 >= 100

TierLabels(field) ==
  CASE field = "pattern_elaboration_depth" ->
         <<"minimal", "moderate", "extensive", "total">>
    [] field = "apophenia_tolerance" -> <<"low", "moderate", "high", "extreme">>
    [] field = "novelty_threshold" ->
         <<"unusual", "untested", "speculative", "radical">>

\* the place of a label in the order of its tiers
Rank(field, label) ==
  CHOOSE k \in 1..Len(TierLabels(field)) : TierLabels(field)[k] = label

LabelFields == {"pattern_elaboration_depth", "apophenia_tolerance", "novelty_threshold"}
CountFields == {"minimum_hybrids", "perspective_count"}
SetFields == {"forbidden_abstractions", "suspended_rules"}

\* the same field derived at another intensity
TierAt(field, i, r) ==
  CASE field = "pattern_elaboration_depth" -> Rank(field, getElaborationDepth(i))
    [] field = "apophenia_tolerance" -> Rank(field, getApopheniaTolerance(i))
    [] field = "novelty_threshold" -> Rank(field, getNoveltyThreshold(i))
    [] field = "minimum_hybrids" -> calculateMinimumHybrids(i, r)
    [] field = "perspective_count" -> calculatePerspectiveCount(i, r)
    [] field = "forbidden_abstractions" ->
         Field(getForbiddenAbstractions(i), FALSE).items
    [] field = "suspended_rules" -> Field(getSuspendedRules(i), FALSE).items

C25_TiersRiseWithIntensity ==
  \A higher \in Intensities :
    higher > evaluated.intensity =>
      LET at == TierAt(evaluated.fn, higher, evaluated.requested)
      IN  /\ evaluated.fn \in LabelFields =>
               at >= Rank(evaluated.fn, evaluated.result)
          /\ evaluated.fn \in CountFields => at >= evaluated.result
          /\ evaluated.fn \in SetFields => evaluated.result.items \subseteq at

\* the two suspended rules of intensity 0.65 are among the six of 0.85
C25_Witness ==
  /\ evaluated.fn = "suspended_rules"
  /\ evaluated.intensity = 65
  /\ Cardinality(evaluated.result.items) = 2
  /\ Cardinality(TierAt("suspended_rules", 85, NoRequest)) = 6

\* ------------------------------------------------------------------------
\* C26: each intensity-gated optional field has one threshold per mode: the
\* field is left out of the response (not sent empty) at every intensity
\* below it and is present and non-empty at every intensity from it on.
\* ------------------------------------------------------------------------
GatedFields ==
  {"forbidden_abstractions", "mandatory_mappings", "constraint_relaxation",
   "suspended_rules", "maintained_rules", "cognitive_state"}

\* the same field of the same mode derived at another intensity
GatedAt(field, m, i) ==
  CASE field = "forbidden_abstractions" -> Field(getForbiddenAbstractions(i), FALSE)
    [] field = "mandatory_mappings" -> Field(getMandatoryMappings(i), FALSE)
    [] field = "constraint_relaxation" -> Field(getConstraintRelaxation(i), FALSE)
    [] field = "suspended_rules" -> Field(getSuspendedRules(i), FALSE)
    [] field = "maintained_rules" -> Field(getMaintainedRules(i), FALSE)
    [] field = "cognitive_state" -> Field(getCognitiveState(m, i), TRUE)

DoseRanges ==
  <<"threshold", "subtle", "moderate", "significant", "strong", "intense",
    "overwhelming">>

\* the place of a label among the seven
RangeRank(label) == CHOOSE k \in 1..Len(DoseRanges) : DoseRanges[k] = label

C28_IntensityNonDecreasing ==
  evaluated.fn = "calculateIntensity" =>
    /\ evaluated.result >= 0
    /\ evaluated.result <= 100
    /\ evaluated.dose = 150 => evaluated.result = 50
    /\ \A higher \in DoseSamples :
         higher >= evaluated.dose => IntensityOf[higher] >= evaluated.result

\* the intensity of a negative dose is above 0 and below that of dose 150
C28_Witness ==
  /\ evaluated.fn = "calculateIntensity"
  /\ evaluated.dose < 0
  /\ evaluated.result > 0
  /\ evaluated.result < IntensityOf[150]

\* ------------------------------------------------------------------------
\* C29: the intensity the program returns is strictly increasing in the
\* dose.
\* ------------------------------------------------------------------------
C29_IntensityStrictlyIncreasing ==
  evaluated.fn = "calculateIntensity" =>
    \A higher \in DoseSamples :
      higher > evaluated.dose => IntensityOf[higher] > evaluated.result

\* C29, amended: the intensity the program returns never falls when the dose
\* rises; between doses of 0 to 300 that are at least 10 apart it rises; from
\* 503 up it stays at 1.00 and from -203 down at 0.00.
C29_IntensityRisesByTens ==
  evaluated.fn = "calculateIntensity" =>
    /\ \A higher \in DoseSamples :
         higher > evaluated.dose =>
           /\ IntensityOf[higher] >= evaluated.result
           /\ ( /\ evaluated.dose >= 0
                /\ higher <= 300
                /\ higher - evaluated.dose >= 10 )
              => IntensityOf[higher] > evaluated.result
    /\ evaluated.dose >= 503 => evaluated.result = 100
    /\ evaluated.dose <= 0 - 203 => evaluated.result = 0

\* the doses 150 and 151 both give 0.50, and 160 gives more
C29_Witness ==
  /\ evaluated.fn = "calculateIntensity"
  /\ evaluated.dose = 150
  /\ evaluated.result = IntensityOf[151]
  /\ evaluated.result < IntensityOf[160]

\* ------------------------------------------------------------------------
\* C30: calculateIntensity gives the values its documentation lists:
\* 20 -> 0.11, 50 -> 0.21, 100 -> 0.45, 150 -> 0.50, 200 -> 0.55,
\* 250 -> 0.69, 350 -> 0.88, 500 -> 0.98.
\* ------------------------------------------------------------------------
DocumentedIntensity ==
  (20 :> 11) @@ (50 :> 21) @@ (100 :> 45) @@ (150 :> 50) @@ (200 :> 55)
  @@ (250 :> 69) @@ (350 :> 88) @@ (500 :> 98)

C30_DocumentedIntensities ==
  (evaluated.fn = "calculateIntensity" /\ evaluated.dose \in DOMAIN DocumentedIntensity)
    => evaluated.result = DocumentedIntensity[evaluated.dose]

\* ------------------------------------------------------------------------
\* C31: on the Remote backend the lookup for an owner returns the most
\* recently created session of that owner among those that have not expired
\* and whose status is not expired (initialized and active both qualify); an
\* older or an expired session never hides a newer live one.
\* ------------------------------------------------------------------------
\* the owner's stored sessions within their lifetime whose status is not expired
LiveSessions(st, t, u) ==
  {i \in st.sessions : /\ st.objects[i].user_id = u
                       /\ ~(st.objects[i].expires_at < t)
                       /\ st.objects[i].status # "expired"}

C31_RemoteReturnsNewestLive ==
  backend = "Remote" =>
    \A u \in Owners :
      LET live == LiveSessions(store, now, u) IN
      live # {} =>
        /\ ResolvesTo(store, now, u) # {}
        /\ \A i \in ResolvesTo(store, now, u) :
             /\ i \in live
             /\ \A j \in live : Obj(i).created_at >= Obj(j).created_at

\* ------------------------------------------------------------------------
\* C32: when adjust_dose calls on one session interleave, each update that
\* is applied leaves that call's dose and that call's intensity in the store
\* together, the one applied last being what stays; nothing else changes a
\* stored dose or intensity, and a call's save precedes its update.
\* ------------------------------------------------------------------------
\* call p's storage.update is applied in this step
AdjustApplies(p) == pc[p] = "a_update" /\ pc'[p] # "a_update"

C32_LastAdjustWins ==
  [][/\ \A p \in Procs :
          (AdjustApplies(p) /\ session[p].id \in Stored) =>
            /\ store'.objects[session[p].id].dose_um = response'[p].dose_um
            /\ store'.objects[session[p].id].intensity_coefficient
                 = response'[p].intensity
     /\ \A i \in Stored \cap store'.sessions :
          ( \/ store'.objects[i].dose_um # Obj(i).dose_um
            \/ store'.objects[i].intensity_coefficient # Obj(i).intensity_coefficient )
          => \E p \in Procs : AdjustApplies(p) /\ session[p].id = i
     /\ \A p \in Procs :
          (pc[p] = "a_create" /\ pc'[p] # "a_create") =>
            /\ response[p].kind = "none"
            /\ nextId \in store'.sessions]_vars

\* two calls that both resolved one session before either's update have
\* adjusted it to different doses (each saw the default dose as the previous
\* one), and the store holds the dose and the intensity of one of them
C32_Witness ==
  \E p, q \in Procs :
    /\ response[p].kind = "adjust"
    /\ response[p].previous_dose_um = DEFAULT_DOSE_UM
    /\ response[q].previous_dose_um = DEFAULT_DOSE_UM
    /\ response[q].kind = "adjust"
    /\ response[p].session_id = response[q].session_id
    /\ response[p].dose_um # response[q].dose_um
    /\ response[q].session_id \in Stored
    /\ Obj(response[q].session_id).dose_um = response[q].dose_um
    /\ Obj(response[q].session_id).intensity_coefficient = response[q].intensity

\* ------------------------------------------------------------------------
\* C33: each of the four dose-effect descriptors (perception and
\* category_fluidity with 6 tiers, pattern_sensitivity and
\* associative_looseness with 4) has one of its tiers at every intensity from
\* 0.00 to 1.00, never falls to a lower tier when the intensity rises, and
\* reaches every one of its tiers.
\* ------------------------------------------------------------------------
EffectTiers ==
  [ perception |->
      <<"imperceptible", "subtle", "moderate", "significant", "intense",
        "overwhelming">>,
    category_fluidity |->
      <<"rigid", "slight", "moderate", "significant", "fluid", "dissolved">>,
    pattern_sensitivity |-> <<"normal", "heightened", "acute", "saturated">>,
    associative_looseness |-> <<"tight", "moderate", "loose", "unbounded">> ]

\* the place of a label among the tiers of a descriptor (0: not one of them)
EffectRank(field, label) ==
  IF \E k \in DOMAIN EffectTiers[field] : EffectTiers[field][k] = label
  THEN CHOOSE k \in DOMAIN EffectTiers[field] : EffectTiers[field][k] = label
  ELSE 0

C33_DoseEffectsAreStepFunctions ==
  evaluated.fn = "calculateDoseEffects" =>
    /\ DOMAIN evaluated.result = DOMAIN EffectTiers
    /\ Len(EffectTiers.perception) = 6
    /\ Len(EffectTiers.category_fluidity) = 6
    /\ Len(EffectTiers.pattern_sensitivity) = 4
    /\ Len(EffectTiers.associative_looseness) = 4
    /\ \A field \in DOMAIN EffectTiers :
         /\ EffectRank(field, evaluated.result[field]) > 0
         /\ \A higher \in Intensities :
              higher >= evaluated.intensity =>
                EffectRank(field, calculateDoseEffects(higher)[field])
                  >= EffectRank(field, evaluated.result[field])
         /\ \A k \in DOMAIN EffectTiers[field] :
              \E i \in Intensities :
                calculateDoseEffects(i)[field] = EffectTiers[field][k]

\* at intensity 0.60 perception has just become intense and
\* pattern_sensitivity acute, while associative_looseness is still loose
C33_Witness ==
  /\ evaluated.fn = "calculateDoseEffects"
  /\ evaluated.intensity = 60
  /\ evaluated.result.perception = "intense"
  /\ calculateDoseEffects(59).perception = "significant"
  /\ evaluated.result.pattern_sensitivity = "acute"
  /\ evaluated.result.associative_looseness = "loose"

\* ------------------------------------------------------------------------
\* C34: over http, whatever other requests do meanwhile, every step of a
\* tool call made for user A that reads the ambient caller identity reads A,
\* the session it auto-creates is owned by A, and the session its update
\* lands on is owned by A.
\* ------------------------------------------------------------------------
\* call p reads currentUserId in this step: a getActiveSession() it calls, or
\* the owner of the session it auto-creates
ReadsIdentity(p) ==
  /\ pc[p] \in {"e_get", "e_reget", "m_get", "a_get", "d_call", "d_reget",
                "e_create", "a_create", "d_create"}
  /\ expiring[p] = NoSession
  /\ pc'[p] # pc[p] \/ expiring'[p] # NoSession

\* the session call p's storage.update is given in this step
UpdateTarget(p) ==
  IF pc[p] = "a_update" THEN session[p].id ELSE modeSession[p]

C34_CallsActForTheirOwnUser ==
  [][\A p \in Procs :
       deployment = "http" =>
         /\ ReadsIdentity(p) => currentUserId = auth[p]
         /\ (pc[p] \in {"e_create", "a_create", "d_create"} /\ pc'[p] # pc[p])
              => store'.objects[nextId].user_id = auth[p]
         /\ ( /\ pc[p] \in {"a_update", "m_update", "d_update"}
              /\ pc'[p] # pc[p]
              /\ UpdateTarget(p) \in Stored )
              => Obj(UpdateTarget(p)).user_id = auth[p]]_vars

\* ------------------------------------------------------------------------
\* C35: in the Local store with the owner index, a delete or a sweep that
\* removes other sessions leaves the lookup of every owner whose active
\* session is not removed and has not expired as it was.
\* ------------------------------------------------------------------------
C35_RemovalKeepsOtherLookups ==
  [][( /\ backend = "LocalIndexed"
       /\ store'.sessions \subseteq Stored
       /\ store'.sessions # Stored )
     => \A u \in Owners :
          \A a \in ResolvesTo(store, now, u) \cap store'.sessions :
            ResolvesTo(store', now', u) = {a}]_vars

\* ------------------------------------------------------------------------
\* C36: under any interleaving of tool calls, the session a mode activation
\* marks (current_mode set, status active) is the session whose intensity it
\* echoes: the lookup inside setCurrentMode resolves to the session
\* ensureSession gave the call.
\* ------------------------------------------------------------------------
C36_ActivationMarksWhatItEchoes ==
  [][\A p \in Procs :
       /\ (pc[p] = "m_get" /\ pc'[p] = "m_update")
            => modeSession'[p] = session[p].id
       /\ (pc[p] = "m_update" /\ pc'[p] # "m_update")
            => /\ modeSession[p] = session[p].id
               /\ \A i \in Stored :
                    store'.objects[i] # Obj(i) => i = session[p].id]_vars

\* ------------------------------------------------------------------------
\* C37: under any interleaving of adjust_dose calls on one session, the
\* previous_dose_um and previous_intensity of each response are the dose and
\* the intensity stored just before that call's own update was applied.
\* ------------------------------------------------------------------------
C37_PreviousIsWhatWasStored ==
  [][\A p \in Procs :
       (AdjustApplies(p) /\ session[p].id \in Stored) =>
         /\ response'[p].previous_dose_um = Obj(session[p].id).dose_um
         /\ response'[p].previous_intensity
              = Obj(session[p].id).intensity_coefficient]_vars

\* ------------------------------------------------------------------------
\* C38: the update of adjust_dose changes only the dose_um and the
\* intensity_coefficient of the session the call resolved: the other fields
\* of that session and every other stored session stay as they are, and no
\* step of an adjust_dose call moves an expires_at or takes a session out
\* of status expired.
\* ------------------------------------------------------------------------
FrameFields ==
  {"created_at", "expires_at", "user_id", "safety_anchors", "current_mode",
   "status"}

\* call p, an adjust_dose, takes a step
AdjustActs(p) ==
  /\ pc[p] \in AdjustPcs
  /\ pc'[p] # pc[p] \/ expiring'[p] # expiring[p]

C38_AdjustChangesDoseOnly ==
  [][\A p \in Procs :
       /\ AdjustApplies(p) =>
            /\ store'.sessions = Stored
            /\ \A i \in Stored :
                 /\ \A f \in FrameFields : store'.objects[i][f] = Obj(i)[f]
                 /\ i # session[p].id => store'.objects[i] = Obj(i)
       /\ AdjustActs(p) =>
            \A i \in Stored :
              /\ i \in store'.sessions
              /\ store'.objects[i].expires_at = Obj(i).expires_at
              /\ store'.objects[i].created_at = Obj(i).created_at
              /\ Obj(i).status = "expired" => store'.objects[i].status = "expired"
              /\ store'.objects[i].status # Obj(i).status
                   => /\ store'.objects[i].status = "expired"
                      /\ Obj(i).expires_at < now]_vars

\* a call whose lookup found its caller's session expired has created and
\* adjusted another one: the expired session is still stored and expired,
\* and the new one is initialized and carries the call's dose
C38_Witness ==
  \E p \in Procs : \E i, j \in Stored :
    /\ response[p].kind = "adjust"
    /\ created[p] = 1
    /\ response[p].session_id = j
    /\ Obj(j).dose_um = response[p].dose_um
    /\ Obj(j).status = "initialized"
    /\ Obj(j).created_at > Obj(i).expires_at
    /\ Obj(i).status = "expired"

\* ------------------------------------------------------------------------
\* C39: in every reachable state a stored session has status expired only
\* if its expires_at is earlier than the current time; a session past its
\* lifetime may still be initialized or active until a lookup detects it.
\* ------------------------------------------------------------------------
C39_ExpiredOnlyPastLifetime ==
  \A i \in Stored : Obj(i).status = "expired" => Obj(i).expires_at < now

\* two sessions are past their lifetime: a lookup has marked one, the other
\* still shows initialized or active
C39_Witness ==
  \E i, j \in Stored :
    /\ Obj(i).status = "expired"
    /\ Obj(i).expires_at < now
    /\ Obj(j).status \in {"initialized", "active"}
    /\ Obj(j).expires_at < now

\* ------------------------------------------------------------------------
\* C40: for every intensity from 0.00 to 1.00 and every requested value
\* inside its schema range, each effective numeric knob of a mode response
\* lies in [0, 1], and perspective_count lies in 2..10.
\* ------------------------------------------------------------------------
UnitKnobs ==
  {"effective_mapping_strictness", "focus_allocation",
   "effective_coherence_preservation", "effective_anchor_strength",
   "effective_exploration_weight", "effective_familiarity_penalty",
   "effective_minimum_surprise", "effective_suspension_depth",
   "pattern_sensitivity", "return_probability"}

====
